---- MODULE Spec2Model ----
(***************************************************************************)
(* Piorun 5.1 (src/Piorun5.1.py): the GeneratorDokumentow controller, its  *)
(* undo/redo snapshot history, the step list with its positional           *)
(* description records, the ImageResizerThread worker of a batch add, and  *)
(* the JSON project file with base64-embedded images.                      *)
(*                                                                         *)
(* Conventions.  Python lists are sequences (1-based here, so the step at  *)
(* Python position k is ilustracje[k+1]); every index the program stores   *)
(* (aktualny_stan_index, aktualny_wybrany_krok, currentRow, the keys of    *)
(* opisy_krokow) keeps its 0-based Python value.  A text (a step name, a   *)
(* description, a file name stem) is a sequence of string tokens, so that  *)
(* the formatted names the program builds ("Krok 3", "loaded_0_a.png")     *)
(* can be put together and taken apart.                                    *)
(***************************************************************************)
EXTENDS Integers, Sequences, FiniteSets, TLC

(* ------------------------------ bounds -------------------------------- *)
\* most steps a project holds in the model
MaxKroki == 3
\* most files selected in one batch add
MaxPartia == 2
\* most handlers run in one behaviour of Spec
MaxOps == 3
\* most handlers run in one behaviour of SpecHist
MaxOpsHist == 23
\* most handlers run in one behaviour of SpecIO
MaxOpsIO == 4
\* most edits of a metadata field or of an option in one behaviour
MaxZmian == 1
\* handlers the user starts in a behaviour of SpecAnuluj
MaxOpsAnuluj == 4
\* handlers and timer ticks in a behaviour of SpecAuto
MaxOpsAuto == 4
\* handlers the user starts in a behaviour of SpecWczytaj
MaxOpsWczytaj == 3
\* most handlers run in one behaviour of SpecHistPlik
MaxOpsHistPlik == 22
\* most handlers run in one behaviour of SpecDokument
MaxOpsDokument == 3

(* ------------------------- program constants -------------------------- *)
maks_historia == 20
\* Python's None for aktualny_wybrany_krok; QListWidget.currentRow() of no row
None == -1
BrakWiersza == -1

VARIABLES
    \* GeneratorDokumentow fields
    ilustracje,             \* list of image paths, one per step
    opisy_krokow,           \* dict {index: [nazwa, opis]}
    aktualny_wybrany_krok,  \* None or the step shown in the editor
    stan_historia,          \* list of snapshots
    wspolne_il,             \* snapshots whose list is the object self.ilustracje
    wspolne_op,             \* snapshots whose dict is the object self.opisy_krokow
    aktualny_stan_index,    \* cursor into stan_historia
    jezyk, dark_theme,
    resizer_thread,         \* the ImageResizerThread object held, or NoThread
    \* widgets
    kod_edit, nazwa_edit, data_edit, autor_edit,
    layout_combo, size_combo, font_combo, font_size_combo,
    steps_list,             \* rows of the ThumbnailListWidget
    currentRow,             \* steps_list.currentRow()
    progress,               \* the QProgressDialog of the running batch is shown
    \* the event loop and the files
    sygnaly,                \* worker signals queued to the GUI thread
    dysk,                   \* path -> bytes, the files that exist
    zapisany,               \* the project file written by zapisz_projekt
    przy_zapisie,           \* the project as it was when that file was written
    zegar,                  \* the millisecond clock read by resize_image
    nr_katalogu,            \* tempfile.mkdtemp results handed out so far
    dziala,                 \* the process runs (it has not been aborted)
    autosave_enabled,       \* the "Wlacz autozapis" menu item is checked
    autozapisy,             \* the files of autosave_dir, oldest first
    probka,                 \* an image file handed to resize_image
    wynik,                  \* what resize_image returned for it
    sciezka_doc,            \* self.sciezka_doc, where the document goes
    dokument,               \* the document file written last
    kopia,                  \* the backup directory written last
    \* bookkeeping of the behaviour
    ostatnia,               \* the handler that ran last
    poprzedni,              \* the project as it was when that handler started
    licznik,                \* handlers run
    zmiany                  \* metadata edits made

vars == <<ilustracje, opisy_krokow, aktualny_wybrany_krok, stan_historia,
          wspolne_il, wspolne_op, aktualny_stan_index, jezyk, dark_theme,
          resizer_thread,
          kod_edit, nazwa_edit, data_edit, autor_edit,
          layout_combo, size_combo, font_combo, font_size_combo,
          steps_list, currentRow, progress, sygnaly, dysk, zapisany,
          przy_zapisie, zegar,
          nr_katalogu, dziala, autosave_enabled, autozapisy, probka, wynik,
          sciezka_doc, dokument, kopia,
          ostatnia, poprzedni, licznik, zmiany>>

(* ------------------------------- texts -------------------------------- *)
Cyfry == <<"0", "1", "2", "3", "4", "5", "6", "7", "8", "9">>

\* str(i) of a non-negative int: its decimal digits
RECURSIVE StrInt(_)
StrInt(i) ==
    IF i < 10 THEN <<Cyfry[i + 1]>>
    ELSE StrInt(i \div 10) \o <<Cyfry[(i % 10) + 1]>>

JestCyfra(c) == \E d \in 1..10 : Cyfry[d] = c
WartoscCyfry(c) == (CHOOSE d \in 1..10 : Cyfry[d] = c) - 1

\* int(s) succeeds on a non-empty run of digits
IntOk(s) == Len(s) > 0 /\ \A k \in 1..Len(s) : JestCyfra(s[k])

RECURSIVE IntStr(_)
IntStr(s) ==
    IF Len(s) = 1 THEN WartoscCyfry(s[1])
    ELSE 10 * IntStr(SubSeq(s, 1, Len(s) - 1)) + WartoscCyfry(s[Len(s)])

\* f"Krok {n}"
KrokNazwa(n) == <<"Krok ">> \o StrInt(n)

\* self.t("domyslny_szablon"): the default description of the language
DomyslnySzablon(j) == <<"szablon", j>>

(* ------------------------------- paths -------------------------------- *)
\* A path is [kat, rdzen, ext]: directory (tokens), file name stem (tokens),
\* extension.
Sciezka(kat, rdzen, ext) == [kat |-> kat, rdzen |-> rdzen, ext |-> ext]

\* os.path.splitext(os.path.basename(p))[0]
NazwaZPliku(p) == p.rdzen

\* hashlib.md5(input_path.encode()).hexdigest()[:8], one token per path
Md5(p) == <<"md5">> \o p.kat \o p.rdzen \o <<p.ext>>

\* the image files the user can pick in a file dialog
PlikA == Sciezka(<<"user">>, <<"a">>, ".png")
PlikB == Sciezka(<<"user">>, <<"b">>, ".png")
PlikC == Sciezka(<<"user">>, <<"c">>, ".png")
PlikiUzytkownika == {PlikA, PlikB, PlikC}

\* the bytes of the user's files; PlikC is not an image file at all
BajtyA == <<77>>
BajtyB == <<1, 2, 3, 4, 255>>
BajtyC == <<>>
\* what img.save writes for a shrunk image
BajtyJpeg == <<255, 216>>

\* os.path.getsize(p) > 800 * 1024
PonadLimit(p) == p = PlikB
\* Image.open(p) raises
NieObraz(p) == p = PlikC

DyskPoczatkowy == (PlikA :> BajtyA) @@ (PlikB :> BajtyB) @@ (PlikC :> BajtyC)

(* --------------------------- initial values --------------------------- *)
KodDomyslny == <<"xxx-xxxx-xxx">>
NazwaDomyslna == <<"Dokumentacja produktu">>
\* datetime.now().strftime("%Y-%m-%d")
DataDzis == <<"dzis">>
AutorDomyslny == <<"Dorota Zareba">>

\* the items of the option combo boxes (currentData for layout_combo and
\* lang_combo, currentText for the others)
UkladPozycje == {"lewo_prawo", "gora", "dol"}
RozmiarPozycje == {"2", "3", "5", "6", "8", "10", "12"}
CzcionkaPozycje == {"Arial", "Times New Roman", "Calibri", "Verdana"}
RozmiarCzcionkiPozycje == {"9", "10", "11", "12", "14", "16"}

\* self.temp_dir of the main window
KatalogGlowny == <<"tmp">> \o StrInt(0)

\* no ImageResizerThread object yet
NoThread ==
    [image_paths |-> <<>>, temp_dir |-> <<>>, processed_paths |-> <<>>,
     stan |-> "brak"]

EmptyDict == [k \in {} |-> <<>>]
NoFile == [json_ok |-> FALSE]

(* --------------------------- the project ------------------------------ *)
\* what the claims call the project: steps, their records, the metadata
Projekt ==
    [ilustracje |-> ilustracje, opisy_krokow |-> opisy_krokow,
     kod |-> kod_edit, nazwa |-> nazwa_edit, data |-> data_edit,
     autor |-> autor_edit]

\* the options of the document and of the interface
Ustawienia ==
    [uklad |-> layout_combo, rozmiar |-> size_combo, czcionka |-> font_combo,
     rozmiar_czcionki |-> font_size_combo, jezyk |-> jezyk,
     dark_theme |-> dark_theme]

(* ------------------------- snapshot history --------------------------- *)
\* a snapshot dict that keeps the language next to the seven keys
StanZJezykiem ==
    [ilustracje |-> ilustracje,
     opisy_krokow |-> opisy_krokow,
     aktualny_wybrany_krok |-> aktualny_wybrany_krok,
     kod |-> kod_edit, nazwa |-> nazwa_edit, data |-> data_edit,
     autor |-> autor_edit, jezyk |-> jezyk]

\* the dict zapisz_stan builds
Stan ==
    [ilustracje |-> ilustracje,
     opisy_krokow |-> opisy_krokow,
     aktualny_wybrany_krok |-> aktualny_wybrany_krok,
     kod |-> kod_edit, nazwa |-> nazwa_edit, data |-> data_edit,
     autor |-> autor_edit]

\* a history that evicts only once it holds more than maks_historia
HistoriaPoPrzepelnieniu(h, stan) ==
    LET h1 == IF Len(h) > maks_historia THEN Tail(h) ELSE h
    IN  Append(h1, stan)

\* a history that at capacity drops its newest snapshot and keeps the oldest
HistoriaBezNajnowszego(h, stan) ==
    LET h1 == IF Len(h) >= maks_historia THEN SubSeq(h, 1, Len(h) - 1) ELSE h
    IN  Append(h1, stan)

\* stan_historia after zapisz_stan appended stan
HistoriaPoZapisie(h, stan) ==
    LET h1 == IF Len(h) >= maks_historia THEN Tail(h) ELSE h
    IN  Append(h1, stan)

\* a cursor left one past the last snapshot
IndeksZaOstatnim(h) == Len(h)

\* aktualny_stan_index after zapisz_stan left the history h
IndeksPoZapisie(h) == Len(h) - 1

\* a load that keeps the history of the project it replaces
HistoriaZachowana(h) == h

\* stan_historia after wczytaj_projekt emptied it, before its zapisz_stan
HistoriaPoWczytaniu(h) == <<>>

\* an assignment without copy: the project and the snapshot at `pozycja`
\* hold the same list and the same dict
BezKopii(pozycja) == {pozycja}

\* list.copy() and copy.deepcopy() return a new object: the copy kept at, or
\* taken from, position `pozycja` of the history is shared with no snapshot
KopiaWspolna(pozycja) == {}

\* the positions (1-based) of the snapshots that share an object with the
\* project, once zapisz_stan appended a snapshot to the history h
WspolnePoZapisie(w, h) ==
    IF Len(h) >= maks_historia
    THEN {k - 1 : k \in w \ {1}} \cup KopiaWspolna(Len(h))
    ELSE w \cup KopiaWspolna(Len(h) + 1)

\* the history h once the list and the dict of the project hold il and op:
\* what is done to an object in place shows in every snapshot holding it
PoZmianachWMiejscu(h, wil, wop, il, op) ==
    [k \in 1..Len(h) |->
        [h[k] EXCEPT !.ilustracje = IF k \in wil THEN il ELSE @,
                     !.opisy_krokow = IF k \in wop THEN op ELSE @]]

\* zapisz_stan at the start of a handler that then changes its list and its
\* dict in place to il and op: the cursor ends on the snapshot appended
ZapiszStan(il, op) ==
    /\ stan_historia' =
         PoZmianachWMiejscu(HistoriaPoZapisie(stan_historia, Stan),
                            WspolnePoZapisie(wspolne_il, stan_historia),
                            WspolnePoZapisie(wspolne_op, stan_historia), il, op)
    /\ aktualny_stan_index' = IndeksPoZapisie(stan_historia')

\* the handler rebinds neither self.ilustracje nor self.opisy_krokow after
\* its zapisz_stan
ObiektyPoZapisie ==
    /\ wspolne_il' = WspolnePoZapisie(wspolne_il, stan_historia)
    /\ wspolne_op' = WspolnePoZapisie(wspolne_op, stan_historia)

(* ----------------------------- the list ------------------------------- *)
\* the rows odswiez_liste builds, row k showing step k numbered k
WierszeListy(il) ==
    [k \in 1..Len(il) |-> [obraz |-> il[k], numer |-> k]]

\* QListWidget.setCurrentRow(r) on a list of n rows
PoSetCurrentRow(r, n) == IF 0 <= r /\ r < n THEN r ELSE BrakWiersza

\* aktualny_wybrany_krok after pokaz_podglad with the current row `row`
PoPokazPodglad(row, il, akt) ==
    IF row >= 0 /\ row < Len(il) THEN row ELSE akt

(* --------------------------- bookkeeping ------------------------------ *)
\* no project recorded
BrakProjektu == [ilustracje |-> <<>>, opisy_krokow |-> EmptyDict,
                 kod |-> <<>>, nazwa |-> <<>>, data |-> <<>>, autor |-> <<>>]

\* a handler the user starts, which changes the project: poprzedni keeps
\* the project it started from
Slad(nazwa) ==
    /\ ostatnia' = nazwa
    /\ poprzedni' = Projekt
    /\ licznik' = licznik + 1

\* a handler the user starts, of which no claim needs the starting project
SladBez(nazwa) ==
    /\ ostatnia' = nazwa
    /\ poprzedni' = BrakProjektu
    /\ licznik' = licznik + 1

\* a handler a queued signal starts
SladSygnalu(nazwa) ==
    /\ ostatnia' = nazwa
    /\ poprzedni' = Projekt
    /\ licznik' = licznik

\* the window takes input: no window-modal progress dialog is over it
Aktywne == dziala /\ ~progress

Opcje == <<layout_combo, size_combo, font_combo, font_size_combo, jezyk,
           dark_theme>>
Pola == <<kod_edit, nazwa_edit, data_edit, autor_edit>>
Watek == <<resizer_thread, sygnaly, progress, zegar, nr_katalogu>>
Pliki == <<dysk, zapisany, przy_zapisie>>
Historia == <<stan_historia, aktualny_stan_index, wspolne_il, wspolne_op>>
Autozapis == <<autosave_enabled, autozapisy>>
Proba == <<probka, wynik>>
Eksport == <<sciezka_doc, dokument, kopia>>
Otoczenie == <<dziala, autosave_enabled, autozapisy, probka, wynik,
               sciezka_doc, dokument, kopia>>

(* ------------------------------- Init --------------------------------- *)
\* no image file is being put through resize_image on its own
BrakProbki ==
    [obraz |-> FALSE, file_kb |-> 0, width |-> 0, height |-> 0, gestosc |-> 0]
BrakWyniku ==
    [path |-> [kat |-> <<>>, rdzen |-> <<>>, ext |-> ""], rozmiar |-> 0]

\* the window after GeneratorDokumentow.__init__
PoKonstrukcji ==
    /\ ilustracje = <<>>
    /\ opisy_krokow = EmptyDict
    /\ aktualny_wybrany_krok = None
    /\ kod_edit = KodDomyslny
    /\ nazwa_edit = NazwaDomyslna
    /\ data_edit = DataDzis
    /\ autor_edit = AutorDomyslny
    /\ layout_combo = "lewo_prawo"
    /\ size_combo = "8"
    /\ font_combo = "Arial"
    /\ font_size_combo = "11"
    /\ jezyk = "polski"
    /\ dark_theme = FALSE
    /\ resizer_thread = NoThread
    /\ steps_list = <<>>
    /\ currentRow = BrakWiersza
    /\ progress = FALSE
    /\ sygnaly = <<>>
    /\ dysk = DyskPoczatkowy
    /\ zapisany = NoFile
    /\ przy_zapisie = NoFile
    /\ zegar = 0
    /\ nr_katalogu = 1
    \* __init__ ends with zapisz_stan() on the empty history
    /\ stan_historia =
         <<[ilustracje |-> <<>>, opisy_krokow |-> EmptyDict,
            aktualny_wybrany_krok |-> None,
            kod |-> KodDomyslny, nazwa |-> NazwaDomyslna,
            data |-> DataDzis, autor |-> AutorDomyslny]>>
    /\ aktualny_stan_index = 0
    /\ wspolne_il = KopiaWspolna(1)
    /\ wspolne_op = KopiaWspolna(1)
    /\ ostatnia = "__init__"
    /\ poprzedni = BrakProjektu
    /\ licznik = 0
    /\ zmiany = 0
    /\ dziala = TRUE
    /\ autosave_enabled = TRUE
    /\ sciezka_doc = <<"dokumentacja_kpk.docx">>
    /\ dokument = [jest |-> FALSE]
    /\ kopia = [jest |-> FALSE]

Init ==
    /\ PoKonstrukcji
    /\ autozapisy = <<>>
    /\ probka = BrakProbki
    /\ wynik = BrakWyniku

(* ------------------------ undo, redo, clear --------------------------- *)
\* the body shared by cofnij and przywroc once the cursor is at idx
OdtworzStan(idx) ==
    LET stan == stan_historia[idx + 1]
        il == stan.ilustracje
        krok == stan.aktualny_wybrany_krok
        row == IF krok # None THEN PoSetCurrentRow(krok, Len(il))
               ELSE BrakWiersza
    IN  /\ aktualny_stan_index' = idx
        /\ ilustracje' = il
        /\ opisy_krokow' = stan.opisy_krokow
        /\ kod_edit' = stan.kod
        /\ nazwa_edit' = stan.nazwa
        /\ data_edit' = stan.data
        /\ autor_edit' = stan.autor
        /\ steps_list' = WierszeListy(il)
        /\ currentRow' = row
        /\ aktualny_wybrany_krok' =
             IF krok # None THEN PoPokazPodglad(row, il, krok) ELSE krok
        \* self.ilustracje and self.opisy_krokow are bound to copies
        /\ wspolne_il' = KopiaWspolna(idx + 1)
        /\ wspolne_op' = KopiaWspolna(idx + 1)
        /\ UNCHANGED <<stan_historia, Opcje, Watek, Pliki, zmiany>>

\* the test cofnij makes before it moves the cursor down
MoznaCofnac == aktualny_stan_index > 0

\* the test przywroc makes before it moves the cursor up
MoznaPrzywrocic == aktualny_stan_index < Len(stan_historia) - 1

cofnij ==
    /\ Aktywne
    /\ MoznaCofnac
    /\ OdtworzStan(aktualny_stan_index - 1)
    /\ UNCHANGED Otoczenie
    /\ Slad("cofnij")

przywroc ==
    /\ Aktywne
    /\ MoznaPrzywrocic
    /\ OdtworzStan(aktualny_stan_index + 1)
    /\ UNCHANGED Otoczenie
    /\ SladBez("przywroc")

wyczysc_wszystko ==
    /\ Aktywne
    \* ilustracje.clear() and opisy_krokow.clear() empty the objects in place
    /\ ZapiszStan(<<>>, EmptyDict)
    /\ ObiektyPoZapisie
    /\ ilustracje' = <<>>
    /\ opisy_krokow' = EmptyDict
    /\ steps_list' = <<>>
    /\ currentRow' = BrakWiersza
    /\ kod_edit' = KodDomyslny
    /\ nazwa_edit' = NazwaDomyslna
    /\ data_edit' = DataDzis
    /\ autor_edit' = AutorDomyslny
    /\ aktualny_wybrany_krok' = None
    /\ UNCHANGED <<Opcje, Watek, Pliki, zmiany>>
    /\ UNCHANGED Otoczenie
    /\ Slad("wyczysc_wszystko")

(* ------------------------- the user's typing -------------------------- *)
\* the user types another text into the metadata field `pole`
PolaMeta == {"kod", "nazwa", "data", "autor"}

EdytujPole(pole) ==
    /\ Aktywne
    /\ zmiany < MaxZmian
    /\ kod_edit' = IF pole = "kod" THEN <<"K-1">> ELSE kod_edit
    /\ nazwa_edit' = IF pole = "nazwa" THEN <<"Instrukcja">> ELSE nazwa_edit
    /\ data_edit' = IF pole = "data" THEN <<"jutro">> ELSE data_edit
    /\ autor_edit' = IF pole = "autor" THEN <<"Jan">> ELSE autor_edit
    /\ zmiany' = zmiany + 1
    /\ UNCHANGED <<ilustracje, opisy_krokow, aktualny_wybrany_krok,
                   Historia, steps_list, currentRow,
                   Opcje, Watek, Pliki>>
    /\ UNCHANGED Otoczenie
    /\ SladBez("edycja_pola")

(* ---------------------------- resize_image ---------------------------- *)
\* resize_image leaves its input alone: the file is missing or no image
\* (the except branch), or it is at most 800 KB
ResizeBezZmian(p, d) == p \notin DOMAIN d \/ NieObraz(p) \/ ~PonadLimit(p)

\* the output path of a shrunk image: <temp_dir>/<timestamp>_<md5>.jpg
ResizeSciezka(p, temp_dir, ts) ==
    Sciezka(temp_dir, StrInt(ts) \o <<"_">> \o Md5(p), ".jpg")

\* a resize_image that hands back a path in temp_dir for every file
ResizeZawszeNowy(p, temp_dir, ts, d) == ResizeSciezka(p, temp_dir, ts)

\* the path resize_image returns
ResizeWynik(p, temp_dir, ts, d) ==
    IF ResizeBezZmian(p, d) THEN p ELSE ResizeSciezka(p, temp_dir, ts)

\* the files after resize_image
ResizeDysk(p, temp_dir, ts, d) ==
    IF ResizeBezZmian(p, d) THEN d
    ELSE (ResizeSciezka(p, temp_dir, ts) :> BajtyJpeg) @@ d

(* ------------------- resize_image, with the sizes --------------------- *)
\* 800 * 1024 bytes, in KB
LimitKB == 800

\* An image file handed to resize_image is [obraz, file_kb, width, height,
\* gestosc]: whether Image.open reads it, its size on disk in KB, its width
\* and height in pixels, and the bytes per 1000 pixels that img.save(...,
\* 'JPEG', quality=85, optimize=True) writes for its content.
RozmiaryKB == {500, 800, 801, 900, 1000, 2000, 8000}
Szerokosci == {1, 1000, 4000}
Wysokosci == {1, 3000}
Gestosci == {50, 300, 900}

Probki ==
    [obraz : BOOLEAN, file_kb : RozmiaryKB, width : Szerokosci,
     height : Wysokosci, gestosc : Gestosci]

\* int(img.width * ratio) with ratio = min(0.8, (800 * 1024) / file_size)
NowyWymiar(w, file_kb) ==
    IF 10 * LimitKB >= 8 * file_kb THEN (w * 8) \div 10
    ELSE (w * LimitKB) \div file_kb

\* the bytes of the JPEG file img.save writes for an image of w x h pixels
JpegRozmiar(w, h, gestosc) == ((w * h) \div 1000) * gestosc + 1024

\* what resize_image returns for the image file s at path p: the path and
\* the size in bytes of the file at that path
ResizeProbki(s, p, temp_dir, ts) ==
    LET wejscie == [path |-> p, rozmiar |-> s.file_kb * 1024]
        nw == NowyWymiar(s.width, s.file_kb)
        nh == NowyWymiar(s.height, s.file_kb)
    IN  IF ~s.obraz THEN wejscie            \* Image.open raises
        ELSE IF s.file_kb * 1024 <= LimitKB * 1024 THEN wejscie
        ELSE IF nw = 0 \/ nh = 0 THEN wejscie    \* img.resize raises
        ELSE [path |-> ResizeSciezka(p, temp_dir, ts),
              rozmiar |-> JpegRozmiar(nw, nh, s.gestosc)]

\* resize_image called on the image file probka
resize_image ==
    /\ probka # BrakProbki
    /\ wynik = BrakWyniku
    /\ wynik' = ResizeProbki(probka, PlikB, KatalogGlowny, zegar)
    /\ UNCHANGED <<ilustracje, opisy_krokow, aktualny_wybrany_krok, Historia,
                   Pola, Opcje, steps_list, currentRow, Watek, Pliki, dziala,
                   Autozapis, probka, Eksport, ostatnia, poprzedni, licznik,
                   zmiany>>

(* ----------------------------- batch add ------------------------------ *)
\* the lists of files among `pliki` a file dialog can return: non-empty, at
\* most MaxPartia long
Partie(pliki) ==
    UNION {[1..n -> pliki] : n \in 1..MaxPartia}

\* the files left once the directory temp_dir is removed (shutil.rmtree)
DyskBezKatalogu(d, temp_dir) ==
    [q \in {x \in DOMAIN d : x.kat # temp_dir} |-> d[q]]

\* ImageResizerThread.__del__ of the thread object being replaced
DyskPoDel(d, t) ==
    IF t.stan = "brak" THEN d ELSE DyskBezKatalogu(d, t.temp_dir)

\* dodaj_ilustracje of the files picked, up to resizer_thread.start(); a
\* batch is started here only when the previous one has been delivered
dodaj_ilustracje(files) ==
    /\ Aktywne
    /\ resizer_thread.stan # "running"
    /\ sygnaly = <<>>
    /\ Len(ilustracje) + Len(files) <= MaxKroki
    /\ resizer_thread' =
         [image_paths |-> files,
          temp_dir |-> <<"tmp">> \o StrInt(nr_katalogu),
          processed_paths |-> <<>>, stan |-> "running"]
    /\ nr_katalogu' = nr_katalogu + 1
    /\ dysk' = DyskPoDel(dysk, resizer_thread)
    /\ progress' = TRUE
    /\ ZapiszStan(ilustracje, opisy_krokow)
    /\ ObiektyPoZapisie
    /\ UNCHANGED <<ilustracje, opisy_krokow, aktualny_wybrany_krok, Pola,
                   Opcje, steps_list, currentRow, sygnaly, zapisany, przy_zapisie,
                   zegar, zmiany>>
    /\ UNCHANGED Otoczenie
    /\ Slad("dodaj_ilustracje")

\* a worker that takes the files from the end of the list
IndeksOdKonca(t) == Len(t.image_paths) - Len(t.processed_paths)

\* the file ImageResizerThread.run takes next: enumerate(self.image_paths)
NastepnyIndeks(t) == Len(t.processed_paths) + 1

\* the user presses "Anuluj" in the progress dialog: the dialog hides; its
\* canceled signal is connected to nothing of the program
AnulujDialog ==
    /\ dziala
    /\ progress
    /\ progress' = FALSE
    /\ UNCHANGED <<ilustracje, opisy_krokow, aktualny_wybrany_krok, Historia,
                   Pola, Opcje, steps_list, currentRow, resizer_thread, sygnaly,
                   zegar, nr_katalogu, Pliki, zmiany>>
    /\ UNCHANGED Otoczenie
    /\ SladBez("AnulujDialog")

\* dodaj_ilustracje while the worker of the previous batch still runs:
\* self.resizer_thread = ImageResizerThread(files) drops the last reference
\* to the running thread object; its __del__ removes its directory and the
\* QThread is deleted while running, which aborts the process
dodaj_ilustracje_w_trakcie(files) ==
    /\ Aktywne
    /\ resizer_thread.stan = "running"
    /\ resizer_thread' = [resizer_thread EXCEPT !.stan = "destroyed"]
    /\ nr_katalogu' = nr_katalogu + 1
    /\ dysk' = DyskPoDel(dysk, resizer_thread)
    /\ progress' = TRUE
    /\ ZapiszStan(ilustracje, opisy_krokow)
    /\ ObiektyPoZapisie
    /\ dziala' = FALSE
    /\ UNCHANGED <<ilustracje, opisy_krokow, aktualny_wybrany_krok, Pola,
                   Opcje, steps_list, currentRow, sygnaly, zapisany, przy_zapisie,
                   zegar, zmiany, Autozapis, Proba, Eksport>>
    /\ Slad("dodaj_ilustracje")

\* a counter that starts at 0
NumerOdZera(t) == Len(t.processed_paths)

\* the counter of self.progress.emit(i + 1, total, ...)
NumerPostepu(t) == Len(t.processed_paths) + 1

\* one iteration of the loop of ImageResizerThread.run
WatekKrok ==
    /\ dziala
    /\ resizer_thread.stan = "running"
    /\ Len(resizer_thread.processed_paths) < Len(resizer_thread.image_paths)
    /\ LET i == NastepnyIndeks(resizer_thread)
           p == resizer_thread.image_paths[i]
           td == resizer_thread.temp_dir
       IN  /\ resizer_thread' =
                [resizer_thread EXCEPT !.processed_paths =
                    Append(@, ResizeWynik(p, td, zegar, dysk))]
           /\ dysk' = ResizeDysk(p, td, zegar, dysk)
           /\ zegar' = IF ResizeBezZmian(p, dysk) THEN zegar ELSE zegar + 1
           /\ sygnaly' = Append(sygnaly,
                [typ |-> "progress", current |-> NumerPostepu(resizer_thread),
                 total |-> Len(resizer_thread.image_paths), paths |-> <<>>])
    /\ UNCHANGED <<ilustracje, opisy_krokow, aktualny_wybrany_krok,
                   Historia, Pola, Opcje, steps_list,
                   currentRow, progress, zapisany, przy_zapisie, nr_katalogu,
                   ostatnia,
                   poprzedni, licznik, zmiany>>
    /\ UNCHANGED Otoczenie

\* the end of ImageResizerThread.run: self.finished.emit(processed_paths)
WatekKoniec ==
    /\ dziala
    /\ resizer_thread.stan = "running"
    /\ Len(resizer_thread.processed_paths) = Len(resizer_thread.image_paths)
    /\ resizer_thread' = [resizer_thread EXCEPT !.stan = "finished"]
    /\ sygnaly' = Append(sygnaly,
         [typ |-> "finished", current |-> 0, total |-> 0,
          paths |-> resizer_thread.processed_paths])
    /\ UNCHANGED <<ilustracje, opisy_krokow, aktualny_wybrany_krok,
                   Historia, Pola, Opcje, steps_list,
                   currentRow, progress, dysk, zapisany, przy_zapisie, zegar,
                   nr_katalogu,
                   ostatnia, poprzedni, licznik, zmiany>>
    /\ UNCHANGED Otoczenie

\* the lambda connected to progress: progress.setValue(current); the dialog
\* resets and hides itself when the value reaches its maximum
OdbierzProgress ==
    /\ dziala
    /\ sygnaly # <<>>
    /\ Head(sygnaly).typ = "progress"
    /\ sygnaly' = Tail(sygnaly)
    \* a dialog the user cancelled is shown again by setValue when the time
    \* it estimates for the rest is long enough
    /\ progress' \in IF Head(sygnaly).current = Head(sygnaly).total
                      THEN {FALSE}
                      ELSE IF progress THEN {TRUE} ELSE BOOLEAN
    /\ UNCHANGED <<ilustracje, opisy_krokow, aktualny_wybrany_krok,
                   Historia, Pola, Opcje, steps_list,
                   currentRow, resizer_thread, dysk, zapisany, przy_zapisie, zegar,
                   nr_katalogu, ostatnia, poprzedni, licznik, zmiany>>
    /\ UNCHANGED Otoczenie

\* self.ilustracje after the loop of on_images_processed
IlustracjePoDodaniu(il, paths) == il \o paths

\* self.opisy_krokow after the loop of on_images_processed: the record of
\* the step appended is keyed by its position
RECURSIVE OpisyPoDodaniu(_, _, _, _)
OpisyPoDodaniu(opisy, n, paths, j) ==
    IF paths = <<>> THEN opisy
    ELSE OpisyPoDodaniu(
            (n :> [nazwa |-> NazwaZPliku(Head(paths)),
                   opis |-> DomyslnySzablon(j)]) @@ opisy,
            n + 1, Tail(paths), j)

\* the rows add_image_item appends, numbered by the position in ilustracje
WierszePoDodaniu(rows, n, paths) ==
    rows \o [k \in 1..Len(paths) |-> [obraz |-> paths[k], numer |-> n + k]]

on_images_processed ==
    /\ dziala
    /\ sygnaly # <<>>
    /\ Head(sygnaly).typ = "finished"
    /\ sygnaly' = Tail(sygnaly)
    /\ progress' = FALSE
    /\ LET paths == Head(sygnaly).paths
           il == IlustracjePoDodaniu(ilustracje, paths)
           rows == WierszePoDodaniu(steps_list, Len(ilustracje), paths)
           row == IF paths # <<>>
                  THEN PoSetCurrentRow(Len(il) - 1, Len(rows)) ELSE currentRow
       IN  /\ ilustracje' = il
           /\ opisy_krokow' =
                OpisyPoDodaniu(opisy_krokow, Len(ilustracje), paths, jezyk)
           /\ steps_list' = rows
           /\ currentRow' = row
           /\ aktualny_wybrany_krok' =
                IF paths # <<>>
                THEN PoPokazPodglad(row, il, aktualny_wybrany_krok)
                ELSE aktualny_wybrany_krok
    \* ilustracje.append and opisy_krokow[index] = ... work in place
    /\ stan_historia' =
         PoZmianachWMiejscu(stan_historia, wspolne_il, wspolne_op,
                            ilustracje', opisy_krokow')
    /\ UNCHANGED <<aktualny_stan_index, wspolne_il, wspolne_op, Pola, Opcje,
                   resizer_thread, dysk, zapisany, przy_zapisie, zegar,
                   nr_katalogu, zmiany>>
    /\ UNCHANGED Otoczenie
    /\ SladSygnalu("on_images_processed")

(* ------------------------- editing the steps -------------------------- *)
\* a sequence with the elements at 1-based positions a and b exchanged
Zamien(seq, a, b) ==
    [k \in 1..Len(seq) |-> IF k = a THEN seq[b] ELSE IF k = b THEN seq[a]
                           ELSE seq[k]]

\* a sequence without its element at 1-based position a (list.pop)
BezElementu(seq, a) ==
    [k \in 1..(Len(seq) - 1) |-> IF k < a THEN seq[k] ELSE seq[k + 1]]

\* the user clicks row r of the list: itemClicked -> pokaz_podglad
pokaz_podglad ==
    /\ Aktywne
    /\ \E r \in 0..(Len(steps_list) - 1) :
         /\ currentRow' = r
         /\ aktualny_wybrany_krok' =
              PoPokazPodglad(r, ilustracje, aktualny_wybrany_krok)
    /\ UNCHANGED <<ilustracje, opisy_krokow, Historia, Pola, Opcje,
                   steps_list, Watek, Pliki,
                   zmiany>>
    /\ UNCHANGED Otoczenie
    /\ SladBez("pokaz_podglad")

\* the name wymien_ilustracje keeps for the step: its own, else the file's
ZachowanaNazwa(opisy, index, plik) ==
    IF index \in DOMAIN opisy /\ opisy[index].nazwa # <<>>
    THEN opisy[index].nazwa
    ELSE NazwaZPliku(plik)

\* self.opisy_krokow after wymien_ilustracje
OpisyPoWymianie(opisy, index, plik, j) ==
    IF index \notin DOMAIN opisy
    THEN (index :> [nazwa |-> ZachowanaNazwa(opisy, index, plik),
                    opis |-> DomyslnySzablon(j)]) @@ opisy
    ELSE [opisy EXCEPT ![index].nazwa = ZachowanaNazwa(opisy, index, plik)]

\* ThumbnailListWidget.update_item
PoUpdateItem(rows, index, path) ==
    IF 0 <= index /\ index < Len(rows)
    THEN [rows EXCEPT ![index + 1] = [obraz |-> path, numer |-> index + 1]]
    ELSE rows

wymien_ilustracje ==
    /\ Aktywne
    /\ currentRow >= 0
    \* ilustracje[index] = ... and opisy_krokow[index] ... work in place
    /\ ZapiszStan(ilustracje', opisy_krokow')
    /\ ObiektyPoZapisie
    /\ \E plik \in PlikiUzytkownika :
         LET index == currentRow
             nowy == ResizeWynik(plik, KatalogGlowny, zegar, dysk)
         IN  /\ dysk' = ResizeDysk(plik, KatalogGlowny, zegar, dysk)
             /\ zegar' = IF ResizeBezZmian(plik, dysk) THEN zegar ELSE zegar + 1
             /\ IF index < Len(ilustracje)
                THEN /\ ilustracje' = [ilustracje EXCEPT ![index + 1] = nowy]
                     /\ opisy_krokow' =
                          OpisyPoWymianie(opisy_krokow, index, plik, jezyk)
                     /\ steps_list' = PoUpdateItem(steps_list, index, nowy)
                     /\ currentRow' = PoSetCurrentRow(index, Len(steps_list))
                     /\ aktualny_wybrany_krok' =
                          PoPokazPodglad(currentRow', ilustracje',
                                         aktualny_wybrany_krok)
                ELSE \* self.ilustracje[index] = ... raises IndexError
                     UNCHANGED <<ilustracje, opisy_krokow, steps_list,
                                 currentRow, aktualny_wybrany_krok>>
    /\ UNCHANGED <<Pola, Opcje, resizer_thread, sygnaly, progress, zapisany,
                   przy_zapisie, nr_katalogu, zmiany>>
    /\ UNCHANGED Otoczenie
    /\ Slad("wymien_ilustracje")

\* self.ilustracje after usun_ilustracje
IlustracjePoUsunieciu(il, index) ==
    IF index < Len(il) THEN BezElementu(il, index + 1) ELSE il

\* a delete that leaves the records of the remaining steps at their keys
OpisyBezPrzesuniecia(opisy, index, n) ==
    [i \in (DOMAIN opisy \ {index}) \cap 0..(n - 1) |-> opisy[i]]

\* self.opisy_krokow after usun_ilustracje: the record of index is deleted
\* and nowe_opisy is built over the n steps that remain
OpisyPoUsunieciu(opisy, index, n) ==
    LET bez == [k \in DOMAIN opisy \ {index} |-> opisy[k]]
        klucze == {i \in 0..(n - 1) :
                     IF i >= index THEN (i + 1) \in DOMAIN bez
                     ELSE i \in DOMAIN bez}
    IN  [i \in klucze |-> IF i >= index THEN bez[i + 1] ELSE bez[i]]

usun_ilustracje ==
    /\ Aktywne
    /\ currentRow >= 0
    \* ilustracje.pop and del opisy_krokow[index] work in place;
    \* self.opisy_krokow = nowe_opisy then binds a new dict
    /\ ZapiszStan(ilustracje',
                  [k \in DOMAIN opisy_krokow \ {currentRow} |-> opisy_krokow[k]])
    /\ wspolne_il' = WspolnePoZapisie(wspolne_il, stan_historia)
    /\ wspolne_op' = {}
    /\ LET index == currentRow
           il == IlustracjePoUsunieciu(ilustracje, index)
           rows == WierszeListy(il)
           row == IF index >= Len(rows) THEN Len(rows) - 1 ELSE index
       IN  /\ ilustracje' = il
           /\ opisy_krokow' = OpisyPoUsunieciu(opisy_krokow, index, Len(il))
           /\ steps_list' = rows
           /\ IF Len(rows) > 0
              THEN /\ currentRow' = PoSetCurrentRow(row, Len(rows))
                   /\ aktualny_wybrany_krok' =
                        PoPokazPodglad(currentRow', il, aktualny_wybrany_krok)
              ELSE /\ currentRow' = BrakWiersza
                   /\ aktualny_wybrany_krok' = None
    /\ UNCHANGED <<Pola, Opcje, Watek, Pliki, zmiany>>
    /\ UNCHANGED Otoczenie
    /\ Slad("usun_ilustracje")

\* self.opisy_krokow after a move exchanged positions a and b: the records
\* are exchanged when both positions have one
OpisyPoPrzeniesieniu(opisy, a, b) ==
    IF a \in DOMAIN opisy /\ b \in DOMAIN opisy
    THEN [opisy EXCEPT ![a] = opisy[b], ![b] = opisy[a]]
    ELSE opisy

\* the body shared by przenies_w_gore and przenies_w_dol: the step at index
\* goes to position cel
Przenies(index, cel) ==
    \* the two exchanges work in place
    /\ ZapiszStan(ilustracje', opisy_krokow')
    /\ ObiektyPoZapisie
    /\ IF index < Len(ilustracje) /\ cel < Len(ilustracje)
       THEN /\ ilustracje' = Zamien(ilustracje, index + 1, cel + 1)
            /\ opisy_krokow' = OpisyPoPrzeniesieniu(opisy_krokow, index, cel)
            /\ steps_list' = WierszeListy(ilustracje')
            /\ currentRow' = PoSetCurrentRow(cel, Len(steps_list'))
            /\ aktualny_wybrany_krok' =
                 PoPokazPodglad(currentRow', ilustracje', aktualny_wybrany_krok)
       ELSE \* self.ilustracje[index] raises IndexError
            UNCHANGED <<ilustracje, opisy_krokow, steps_list, currentRow,
                        aktualny_wybrany_krok>>
    /\ UNCHANGED <<Pola, Opcje, Watek, Pliki, zmiany>>

przenies_w_gore ==
    /\ Aktywne
    /\ currentRow > 0
    /\ Przenies(currentRow, currentRow - 1)
    /\ UNCHANGED Otoczenie
    /\ Slad("przenies_w_gore")

przenies_w_dol ==
    /\ Aktywne
    /\ ~(currentRow < 0 \/ currentRow >= Len(ilustracje) - 1)
    /\ Przenies(currentRow, currentRow + 1)
    /\ UNCHANGED Otoczenie
    /\ Slad("przenies_w_dol")

\* the texts the user has in the step editor when pressing save, after
\* strip(): an empty name, or a typed one; a typed description
NazwyWpisane == {<<>>, <<"Nazwa">>}
OpisyWpisane == {<<"Opis">>}

\* self.opisy_krokow after zapisz_opis_kroku
OpisyPoZapisie(opisy, index, nazwa, opis) ==
    (index :> [nazwa |-> IF nazwa = <<>> THEN KrokNazwa(index + 1) ELSE nazwa,
               opis |-> opis]) @@ opisy

zapisz_opis_kroku ==
    /\ Aktywne
    /\ aktualny_wybrany_krok # None
    \* opisy_krokow[index] = ... works in place
    /\ ZapiszStan(ilustracje, opisy_krokow')
    /\ ObiektyPoZapisie
    /\ \E nazwa \in NazwyWpisane, opis \in OpisyWpisane :
         opisy_krokow' =
            OpisyPoZapisie(opisy_krokow, aktualny_wybrany_krok, nazwa, opis)
    \* update_item of the row of the step; self.ilustracje[index] raises
    \* IndexError when the list has a row for which there is no step
    /\ steps_list' =
         IF aktualny_wybrany_krok < Len(ilustracje)
         THEN PoUpdateItem(steps_list, aktualny_wybrany_krok,
                           ilustracje[aktualny_wybrany_krok + 1])
         ELSE steps_list
    /\ UNCHANGED <<ilustracje, aktualny_wybrany_krok, currentRow,
                   Pola, Opcje, Watek, Pliki, zmiany>>
    /\ UNCHANGED Otoczenie
    /\ Slad("zapisz_opis_kroku")

(* ---------------------------- the options ----------------------------- *)
\* the user picks another item in the option combo box `opcja`, or the other
\* theme in the menu; lang_combo runs zmien_jezyk, the menu zmien_motyw
OpcjeDokumentu ==
    {"uklad", "rozmiar", "czcionka", "rozmiar_czcionki", "jezyk", "dark_theme"}

ZmienOpcje(opcja) ==
    /\ Aktywne
    /\ zmiany < MaxZmian
    /\ layout_combo' = IF opcja = "uklad" /\ layout_combo = "lewo_prawo"
                       THEN "dol" ELSE IF opcja = "uklad" THEN "lewo_prawo"
                       ELSE layout_combo
    /\ size_combo' = IF opcja = "rozmiar" THEN "5" ELSE size_combo
    /\ font_combo' = IF opcja = "czcionka" THEN "Calibri" ELSE font_combo
    /\ font_size_combo' = IF opcja = "rozmiar_czcionki" THEN "12"
                          ELSE font_size_combo
    /\ jezyk' = IF opcja = "jezyk" /\ jezyk = "polski" THEN "angielski"
                ELSE IF opcja = "jezyk" THEN "polski" ELSE jezyk
    /\ dark_theme' = IF opcja = "dark_theme" THEN ~dark_theme ELSE dark_theme
    /\ zmiany' = zmiany + 1
    /\ UNCHANGED <<ilustracje, opisy_krokow, aktualny_wybrany_krok,
                   Historia, Pola, steps_list,
                   currentRow, Watek, Pliki>>
    /\ UNCHANGED Otoczenie
    /\ SladBez("zmien_opcje")

(* ------------------------------ base64 -------------------------------- *)
\* base64.b64encode over bytes 0..255: the characters of the alphabet are
\* their 6-bit values, 64 is the padding character '='
RECURSIVE B64Encode(_)
B64Encode(b) ==
    IF Len(b) = 0 THEN <<>>
    ELSE IF Len(b) = 1 THEN
        <<b[1] \div 4, (b[1] % 4) * 16, 64, 64>>
    ELSE IF Len(b) = 2 THEN
        <<b[1] \div 4, (b[1] % 4) * 16 + (b[2] \div 16), (b[2] % 16) * 4, 64>>
    ELSE
        <<b[1] \div 4, (b[1] % 4) * 16 + (b[2] \div 16),
          (b[2] % 16) * 4 + (b[3] \div 64), b[3] % 64>>
        \o B64Encode(SubSeq(b, 4, Len(b)))

\* base64.b64decode raises binascii.Error on incorrect padding
B64Ok(s) == Len(s) % 4 = 0

\* a decoder that takes the padding character for data
RECURSIVE B64DecodeBezDopelnienia(_)
B64DecodeBezDopelnienia(s) ==
    IF Len(s) = 0 THEN <<>>
    ELSE
        <<s[1] * 4 + (s[2] \div 16), ((s[2] % 16) * 16 + (s[3] \div 4)) % 256,
          ((s[3] % 4) * 64 + s[4]) % 256>>
        \o B64DecodeBezDopelnienia(SubSeq(s, 5, Len(s)))

RECURSIVE B64Decode(_)
B64Decode(s) ==
    IF Len(s) = 0 THEN <<>>
    ELSE
        (IF s[3] = 64 THEN
            <<s[1] * 4 + (s[2] \div 16)>>
         ELSE IF s[4] = 64 THEN
            <<s[1] * 4 + (s[2] \div 16), (s[2] % 16) * 16 + (s[3] \div 4)>>
         ELSE
            <<s[1] * 4 + (s[2] \div 16), (s[2] % 16) * 16 + (s[3] \div 4),
              (s[3] % 4) * 64 + s[4]>>)
        \o B64Decode(SubSeq(s, 5, Len(s)))

(* --------------------------- project file ----------------------------- *)
\* obrazy_base64 of zapisz_projekt: one entry per readable image, keyed by
\* str(i); an image that cannot be read is skipped with a warning
ObrazyBase64(il, d) ==
    LET czytelne == {k \in 1..Len(il) : il[k] \in DOMAIN d}
    IN  [key \in {StrInt(k - 1) : k \in czytelne} |->
            LET k == CHOOSE k \in czytelne : StrInt(k - 1) = key
            IN  [nazwa |-> [rdzen |-> il[k].rdzen, ext |-> il[k].ext],
                 dane |-> B64Encode(d[il[k]])]]

\* opisy_krokow_str_keys
OpisyStrKeys(opisy) ==
    [key \in {StrInt(k) : k \in DOMAIN opisy} |->
        opisy[CHOOSE k \in DOMAIN opisy : StrInt(k) = key]]

\* the dict zapisz_projekt dumps as JSON
ProjektJson ==
    [json_ok |-> TRUE,
     kod |-> kod_edit, nazwa |-> nazwa_edit, data |-> data_edit,
     autor |-> autor_edit,
     obrazy |-> ObrazyBase64(ilustracje, dysk),
     opisy_krokow |-> OpisyStrKeys(opisy_krokow),
     ustawienia |-> Ustawienia]

\* the bytes of every step image, <<-1>> for a file that cannot be read
TrescObrazow(il, d) ==
    [k \in 1..Len(il) |-> IF il[k] \in DOMAIN d THEN d[il[k]] ELSE <<-1>>]

zapisz_projekt ==
    /\ Aktywne
    /\ ilustracje # <<>>
    /\ zapisany' = ProjektJson
    /\ przy_zapisie' =
         [projekt |-> Projekt, ustawienia |-> Ustawienia,
          tresc |-> TrescObrazow(ilustracje, dysk),
          czytelne |-> \A k \in 1..Len(ilustracje) : ilustracje[k] \in DOMAIN dysk]
    /\ UNCHANGED <<ilustracje, opisy_krokow, aktualny_wybrany_krok,
                   Historia, Pola, Opcje, steps_list,
                   currentRow, Watek, dysk, zmiany>>
    /\ UNCHANGED Otoczenie
    /\ SladBez("zapisz_projekt")

\* the path wczytaj_projekt writes image i of the file to
SciezkaWczytana(i, nazwa) ==
    Sciezka(KatalogGlowny, <<"loaded_">> \o StrInt(i) \o <<"_">> \o nazwa.rdzen,
            nazwa.ext)

\* The loop over the images of the file from position i on: the paths
\* appended to self.ilustracje, the files written, and whether an entry
\* raised (a payload base64 cannot decode).
RECURSIVE WczytajObrazy(_, _, _, _)
WczytajObrazy(obrazy, i, il, d) ==
    IF i >= Cardinality(DOMAIN obrazy)
    THEN [il |-> il, dysk |-> d, blad |-> FALSE]
    ELSE IF StrInt(i) \notin DOMAIN obrazy
    THEN WczytajObrazy(obrazy, i + 1, il, d)
    ELSE IF ~B64Ok(obrazy[StrInt(i)].dane)
    THEN [il |-> il, dysk |-> d, blad |-> TRUE]
    ELSE LET e == obrazy[StrInt(i)]
             path == SciezkaWczytana(i, e.nazwa)
         IN  WczytajObrazy(obrazy, i + 1, Append(il, path),
                           (path :> B64Decode(e.dane)) @@ d)

\* opisy_krokow_int_keys; int(key) raises on a key that is no number
OpisyIntKeysOk(opisy) == \A key \in DOMAIN opisy : IntOk(key)
OpisyIntKeys(opisy) ==
    [k \in {IntStr(key) : key \in DOMAIN opisy} |->
        opisy[CHOOSE key \in DOMAIN opisy : IntStr(key) = k]]

\* QComboBox.setCurrentText / findData + setCurrentIndex: the item is
\* selected when the combo box has it
PoWyborze(pozycje, wartosc, teraz) ==
    IF wartosc \in pozycje THEN wartosc ELSE teraz

\* wczytaj_projekt of the file f the user picked
wczytaj_projekt(f) ==
    /\ Aktywne
    /\ IF ~f.json_ok
       THEN \* json.load raises; the except branch reports it
            UNCHANGED <<ilustracje, opisy_krokow, aktualny_wybrany_krok,
                        Historia, Pola, Opcje, steps_list, currentRow, dysk>>
       ELSE LET w == WczytajObrazy(f.obrazy, 0, <<>>, dysk)
            IN  /\ kod_edit' = f.kod
                /\ nazwa_edit' = f.nazwa
                /\ data_edit' = f.data
                /\ autor_edit' = f.autor
                \* self.ilustracje = [] binds a new list
                /\ ilustracje' = w.il
                /\ dysk' = w.dysk
                /\ IF w.blad \/ ~OpisyIntKeysOk(f.opisy_krokow)
                   THEN \* raised part-way: what was assigned so far stays
                        /\ wspolne_il' = {}
                        /\ UNCHANGED <<opisy_krokow, aktualny_wybrany_krok,
                                       stan_historia, aktualny_stan_index,
                                       wspolne_op, Opcje, steps_list,
                                       currentRow>>
                   ELSE /\ opisy_krokow' = OpisyIntKeys(f.opisy_krokow)
                        /\ layout_combo' =
                             PoWyborze(UkladPozycje, f.ustawienia.uklad, layout_combo)
                        /\ size_combo' =
                             PoWyborze(RozmiarPozycje, f.ustawienia.rozmiar, size_combo)
                        /\ font_combo' =
                             PoWyborze(CzcionkaPozycje, f.ustawienia.czcionka, font_combo)
                        /\ font_size_combo' =
                             PoWyborze(RozmiarCzcionkiPozycje,
                                       f.ustawienia.rozmiar_czcionki, font_size_combo)
                        /\ jezyk' = f.ustawienia.jezyk
                        /\ dark_theme' = f.ustawienia.dark_theme
                        /\ steps_list' = WierszeListy(w.il)
                        /\ currentRow' = BrakWiersza
                        /\ UNCHANGED aktualny_wybrany_krok
                        \* self.stan_historia = []; zapisz_stan()
                        /\ stan_historia' =
                             HistoriaPoZapisie(HistoriaPoWczytaniu(stan_historia),
                               [ilustracje |-> w.il,
                                opisy_krokow |-> OpisyIntKeys(f.opisy_krokow),
                                aktualny_wybrany_krok |-> aktualny_wybrany_krok,
                                kod |-> f.kod, nazwa |-> f.nazwa,
                                data |-> f.data, autor |-> f.autor])
                        /\ aktualny_stan_index' = IndeksPoZapisie(stan_historia')
                        /\ wspolne_il' = KopiaWspolna(1)
                        /\ wspolne_op' = KopiaWspolna(1)
    /\ UNCHANGED <<Watek, zapisany, przy_zapisie, zmiany>>
    /\ UNCHANGED Otoczenie
    /\ Slad("wczytaj_projekt")

\* a project file not written in this session: two images, and a
\* description record for the first one only
ProjektObcy ==
    [json_ok |-> TRUE,
     kod |-> <<"K-2">>, nazwa |-> <<"Obcy">>, data |-> <<"wczoraj">>,
     autor |-> <<"Ewa">>,
     obrazy |-> (StrInt(0) :> [nazwa |-> [rdzen |-> <<"a">>, ext |-> ".png"],
                               dane |-> B64Encode(BajtyA)])
             @@ (StrInt(1) :> [nazwa |-> [rdzen |-> <<"b">>, ext |-> ".png"],
                               dane |-> B64Encode(BajtyB)]),
     opisy_krokow |-> (StrInt(0) :> [nazwa |-> <<"Pierwszy">>,
                                     opis |-> <<"Opis pierwszego">>]),
     ustawienia |-> [uklad |-> "gora", rozmiar |-> "10", czcionka |-> "Verdana",
                     rozmiar_czcionki |-> "14", jezyk |-> "angielski",
                     dark_theme |-> TRUE]]

\* a project file whose second image entry holds a payload that base64
\* cannot decode
ProjektUszkodzony ==
    [ProjektObcy EXCEPT
        !.obrazy = (StrInt(0) :> [nazwa |-> [rdzen |-> <<"a">>, ext |-> ".png"],
                                  dane |-> B64Encode(BajtyA)])
                @@ (StrInt(1) :> [nazwa |-> [rdzen |-> <<"b">>, ext |-> ".png"],
                                  dane |-> <<1, 2, 3>>])]

\* a project file with a description key that is no number
ProjektZlyKlucz ==
    [ProjektObcy EXCEPT
        !.opisy_krokow = (<<"x">> :> [nazwa |-> <<"Pierwszy">>,
                                      opis |-> <<"Opis pierwszego">>])]

\* the project files the user can pick in the file dialog of wczytaj_projekt
PlikiProjektow == {ProjektObcy} \cup (IF zapisany.json_ok THEN {zapisany} ELSE {})

(* ------------------------------ autosave ------------------------------ *)
\* oczysc_stare_autozapisy keeps the 10 newest files
maks_autozapisow == 10

\* the "Wlacz autozapis" menu item: setattr(self, 'autosave_enabled', checked)
PrzelaczAutozapis ==
    /\ Aktywne
    /\ autosave_enabled' = ~autosave_enabled
    /\ UNCHANGED <<ilustracje, opisy_krokow, aktualny_wybrany_krok, Historia,
                   Pola, Opcje, steps_list, currentRow, Watek, Pliki, dziala,
                   autozapisy, Proba, Eksport, zmiany>>
    /\ SladBez("PrzelaczAutozapis")

\* a tick that skips whenever the project has no steps, enabled or not
PomijanyBezKrokow == ilustracje = <<>>

\* the early return of autozapisz_projekt
AutozapisPomijany == ilustracje = <<>> \/ ~autosave_enabled

\* the file name: the code of the document, or "bez_kodu" for an empty or
\* the default one, then the time of the tick
NazwaAutozapisu(kod, ts) ==
    (IF kod = <<>> \/ kod = KodDomyslny THEN <<"bez_kodu">> ELSE kod)
    \o <<"_">> \o StrInt(ts)

\* a clean-up whose loop runs while 10 or more files are listed, and so
\* leaves 9
OczyscDoDziewieciu(pliki, zostaja) ==
    IF Len(pliki) >= maks_autozapisow
    THEN SubSeq(pliki, Len(pliki) - maks_autozapisow + 2, Len(pliki))
    ELSE pliki

\* the files of autosave_dir after oczysc_stare_autozapisy, oldest first
\* (the order of their modification times): while more than 10 are listed
\* the oldest is taken off the list and os.remove is tried on it; the
\* files at the positions `zostaja` are those whose os.remove raised,
\* which is ignored
OczyscStare(pliki, zostaja) ==
    IF Len(pliki) > maks_autozapisow
    THEN LET n == Len(pliki) - maks_autozapisow
             sa == {k \in 1..Len(pliki) : k > n \/ k \in zostaja}
         IN  [i \in 1..Cardinality(sa) |->
                pliki[CHOOSE k \in sa :
                        Cardinality({j \in sa : j < k}) = i - 1]]
    ELSE pliki

\* how the writing of a tick ends: the file is written; open() raises and
\* no file is made; json.dump raises and leaves a file that is no JSON
WynikiZapisu == {"zapisany", "blad_open", "blad_dump"}

\* the timeout of autosave_timer
autozapisz_projekt ==
    /\ dziala
    /\ IF AutozapisPomijany
       THEN UNCHANGED <<autozapisy, zegar>>
       ELSE /\ zegar' = zegar + 1
            /\ \E w \in WynikiZapisu,
                  zostaja \in SUBSET (1..(Len(autozapisy) + 1 - maks_autozapisow)) :
                 autozapisy' =
                    IF w = "zapisany"
                    THEN OczyscStare(Append(autozapisy,
                            [nazwa |-> NazwaAutozapisu(kod_edit, zegar),
                             tresc |-> ProjektJson]), zostaja)
                    ELSE IF w = "blad_dump"
                    THEN Append(autozapisy,
                            [nazwa |-> NazwaAutozapisu(kod_edit, zegar),
                             tresc |-> NoFile])
                    ELSE autozapisy
    /\ UNCHANGED <<ilustracje, opisy_krokow, aktualny_wybrany_krok, Historia,
                   Pola, Opcje, steps_list, currentRow, resizer_thread, sygnaly,
                   progress, nr_katalogu, Pliki, dziala, autosave_enabled,
                   Proba, Eksport, zmiany>>
    /\ Slad("autozapisz_projekt")

\* the autosave files the user can pick in the file dialog of wczytaj_projekt
PlikiAutozapisu == {autozapisy[k].tresc : k \in 1..Len(autozapisy)}

(* ------------------------ handlers that return ------------------------ *)
\* usun_ilustracje with no current row: it returns before zapisz_stan
usun_ilustracje_bez_wiersza ==
    /\ Aktywne
    /\ currentRow < 0
    /\ UNCHANGED <<ilustracje, opisy_krokow, aktualny_wybrany_krok, Historia,
                   Pola, Opcje, steps_list, currentRow, Watek, Pliki, zmiany>>
    /\ UNCHANGED Otoczenie
    /\ Slad("usun_ilustracje")

\* przenies_w_gore with current_row <= 0: it returns before zapisz_stan
przenies_w_gore_bez_ruchu ==
    /\ Aktywne
    /\ currentRow <= 0
    /\ UNCHANGED <<ilustracje, opisy_krokow, aktualny_wybrany_krok, Historia,
                   Pola, Opcje, steps_list, currentRow, Watek, Pliki, zmiany>>
    /\ UNCHANGED Otoczenie
    /\ Slad("przenies_w_gore")

\* przenies_w_dol with no current row, or with current_row at or past the
\* index of the last step: it returns before zapisz_stan
przenies_w_dol_bez_ruchu ==
    /\ Aktywne
    /\ (currentRow < 0 \/ currentRow >= Len(ilustracje) - 1)
    /\ UNCHANGED <<ilustracje, opisy_krokow, aktualny_wybrany_krok, Historia,
                   Pola, Opcje, steps_list, currentRow, Watek, Pliki, zmiany>>
    /\ UNCHANGED Otoczenie
    /\ Slad("przenies_w_dol")

\* zapisz_opis_kroku with aktualny_wybrany_krok None: a warning, and it
\* returns before zapisz_stan
zapisz_opis_kroku_bez_kroku ==
    /\ Aktywne
    /\ aktualny_wybrany_krok = None
    /\ UNCHANGED <<ilustracje, opisy_krokow, aktualny_wybrany_krok, Historia,
                   Pola, Opcje, steps_list, currentRow, Watek, Pliki, zmiany>>
    /\ UNCHANGED Otoczenie
    /\ Slad("zapisz_opis_kroku")

(* ---------------------------- the document ---------------------------- *)
\* a name taken from no record: f'Krok {numer}' for every step
NazwaZawszeDomyslna(opisy, index) == KrokNazwa(index + 1)

\* self.opisy_krokow.get(index, {}).get('nazwa', f'Krok {index + 1}')
NazwaKroku(opisy, index) ==
    IF index \in DOMAIN opisy THEN opisy[index].nazwa
    ELSE KrokNazwa(index + 1)

\* self.opisy_krokow.get(index, {}).get('opis', self.t("domyslny_szablon"))
OpisKroku(opisy, index, j) ==
    IF index \in DOMAIN opisy THEN opisy[index].opis ELSE DomyslnySzablon(j)

\* f"Krok {numer}: {nazwa_kroku}", the text of an entry of the table of
\* contents and of the heading of a step
Naglowek(numer, nazwa) == <<"Krok ">> \o StrInt(numer) \o <<": ">> \o nazwa

\* the table of contents: one paragraph per step, in list order
SpisTresci(il, opisy) ==
    [k \in 1..Len(il) |-> Naglowek(k, NazwaKroku(opisy, k - 1))]

\* what dodaj_krok_do_dokumentu adds for step `numer`: the heading, the
\* picture (a text in its place when the file does not exist) and the
\* instruction, the picture before or after it as the layout says
KrokDokumentu(sciezka, numer, opisy, j, uklad, d) ==
    [naglowek |-> Naglowek(numer, NazwaKroku(opisy, numer - 1)),
     uklad |-> uklad,
     obraz |-> IF sciezka \in DOMAIN d THEN d[sciezka] ELSE <<>>,
     brak_obrazu |->
        IF sciezka \in DOMAIN d THEN <<>>
        ELSE <<"[Brak obrazu dla kroku ">> \o StrInt(numer) \o <<"]">>,
     instrukcja |-> OpisKroku(opisy, numer - 1, j)]

\* add_picture raises on a file that exists and is no image
ObrazyDoWstawienia(il, d) ==
    \A k \in 1..Len(il) : ~(il[k] \in DOMAIN d /\ NieObraz(il[k]))

\* a generation that records a snapshot before it writes
generuj_z_zapisem_stanu ==
    /\ Aktywne
    /\ ilustracje # <<>>
    /\ ZapiszStan(ilustracje, opisy_krokow)
    /\ ObiektyPoZapisie
    /\ UNCHANGED <<ilustracje, opisy_krokow, aktualny_wybrany_krok,
                   Pola, Opcje, steps_list, currentRow, Watek, Pliki, zmiany>>
    /\ UNCHANGED Otoczenie
    /\ Slad("generuj_i_otworz_dokument")

generuj_i_otworz_dokument ==
    /\ Aktywne
    /\ IF ilustracje = <<>> \/ kod_edit = <<>> \/ nazwa_edit = <<>>
       THEN \* a warning, nothing else
            UNCHANGED <<sciezka_doc, dokument>>
       ELSE \* the file dialog was cancelled; the document was saved;
            \* Cancel was pressed in the progress dialog between two steps;
            \* doc.save raised
            \E w \in {"anulowany", "gotowy", "przerwany", "blad"} :
              /\ sciezka_doc' =
                   IF w = "anulowany" THEN sciezka_doc ELSE <<"wybrany.docx">>
              /\ dokument' =
                   IF w = "gotowy" /\ ObrazyDoWstawienia(ilustracje, dysk)
                   THEN [jest |-> TRUE,
                         tytul |-> [kod |-> kod_edit, nazwa |-> nazwa_edit,
                                    data |-> data_edit, autor |-> autor_edit,
                                    liczba_krokow |-> Len(ilustracje)],
                         spis |-> SpisTresci(ilustracje, opisy_krokow),
                         procedura |->
                            [k \in 1..Len(ilustracje) |->
                                KrokDokumentu(ilustracje[k], k, opisy_krokow,
                                              jezyk, layout_combo, dysk)]]
                   ELSE dokument
    /\ UNCHANGED <<ilustracje, opisy_krokow, aktualny_wybrany_krok, Historia,
                   Pola, Opcje, steps_list, currentRow, Watek, Pliki, zmiany>>
    /\ UNCHANGED <<dziala, autosave_enabled, autozapisy, probka, wynik, kopia>>
    /\ Slad("generuj_i_otworz_dokument")

utworz_kopie_zapasowa ==
    /\ Aktywne
    /\ IF ilustracje = <<>>
       THEN UNCHANGED kopia
       ELSE \* the directory dialog was cancelled; the backup was written;
            \* makedirs raised
            \E w \in {"anulowana", "gotowa", "blad"} :
              kopia' =
                IF w = "gotowa"
                THEN [jest |-> TRUE,
                      obrazy |->
                        [k \in {i \in 1..Len(ilustracje) :
                                  ilustracje[i] \in DOMAIN dysk} |->
                            dysk[ilustracje[k]]],
                      dane |-> [kod |-> kod_edit, nazwa |-> nazwa_edit,
                                data |-> data_edit, autor |-> autor_edit,
                                opisy_krokow |-> OpisyStrKeys(opisy_krokow)]]
                ELSE kopia
    /\ UNCHANGED <<ilustracje, opisy_krokow, aktualny_wybrany_krok, Historia,
                   Pola, Opcje, steps_list, currentRow, Watek, Pliki, zmiany>>
    /\ UNCHANGED <<dziala, autosave_enabled, autozapisy, probka, wynik,
                   sciezka_doc, dokument>>
    /\ Slad("utworz_kopie_zapasowa")

(* -------------------------- specifications ---------------------------- *)
\* Spec: editing the steps, batch add with its worker, undo and redo; the
\* handlers the user starts are bounded per behaviour
Wolno == licznik < MaxOps

Next ==
    \/ WatekKrok
    \/ WatekKoniec
    \/ OdbierzProgress
    \/ on_images_processed
    \/ Wolno /\ \E files \in Partie({PlikB, PlikC}) : dodaj_ilustracje(files)
    \/ Wolno /\ wymien_ilustracje
    \/ Wolno /\ usun_ilustracje
    \/ Wolno /\ przenies_w_gore
    \/ Wolno /\ przenies_w_dol
    \/ Wolno /\ zapisz_opis_kroku
    \/ Wolno /\ pokaz_podglad
    \/ Wolno /\ wyczysc_wszystko
    \/ Wolno /\ cofnij
    \/ Wolno /\ przywroc
    \/ Wolno /\ \E pole \in PolaMeta : EdytujPole(pole)
    \/ Wolno /\ \E opcja \in OpcjeDokumentu : ZmienOpcje(opcja)

Spec == Init /\ [][Next]_vars

\* SpecHist: long runs of clear-all, undo and redo with the metadata typed
\* in between, which fill the history to its capacity
WolnoHist == licznik < MaxOpsHist

NextHist ==
    \/ WolnoHist /\ wyczysc_wszystko
    \/ WolnoHist /\ cofnij
    \/ WolnoHist /\ przywroc
    \/ WolnoHist /\ EdytujPole("kod")

SpecHist == Init /\ [][NextHist]_vars

\* SpecHistPlik: the history filled to its capacity by clear-all, undo and
\* redo, with a project file loaded at any point
WolnoHistPlik == licznik < MaxOpsHistPlik

NextHistPlik ==
    \/ WolnoHistPlik /\ wyczysc_wszystko
    \/ WolnoHistPlik /\ cofnij
    \/ WolnoHistPlik /\ przywroc
    \/ WolnoHistPlik /\ wczytaj_projekt(ProjektObcy)

SpecHistPlik == Init /\ [][NextHistPlik]_vars

\* SpecIO: project files written and read back, and the steps of a loaded
\* project edited
WolnoIO == licznik < MaxOpsIO

NextIO ==
    \/ WatekKrok
    \/ WatekKoniec
    \/ OdbierzProgress
    \/ on_images_processed
    \/ WolnoIO /\ \E files \in Partie({PlikA, PlikB}) : dodaj_ilustracje(files)
    \/ WolnoIO /\ zapisz_projekt
    \/ WolnoIO /\ \E f \in PlikiProjektow : wczytaj_projekt(f)
    \/ WolnoIO /\ pokaz_podglad
    \/ WolnoIO /\ usun_ilustracje
    \/ WolnoIO /\ przenies_w_gore
    \/ WolnoIO /\ przenies_w_dol
    \/ WolnoIO /\ zapisz_opis_kroku
    \/ WolnoIO /\ \E opcja \in {"uklad", "jezyk"} : ZmienOpcje(opcja)

SpecIO == Init /\ [][NextIO]_vars

\* SpecAnuluj: batch add with the progress dialog cancelled and the window
\* used while the worker runs. The worker thread runs to the end of run()
\* and the event loop of the window handles every queued signal.
WolnoAnuluj == licznik < MaxOpsAnuluj

NextAnuluj ==
    \/ WatekKrok
    \/ WatekKoniec
    \/ OdbierzProgress
    \/ on_images_processed
    \/ WolnoAnuluj /\ \E files \in Partie({PlikB, PlikC}) : dodaj_ilustracje(files)
    \/ WolnoAnuluj /\ \E files \in Partie({PlikB}) : dodaj_ilustracje_w_trakcie(files)
    \/ WolnoAnuluj /\ AnulujDialog
    \/ WolnoAnuluj /\ pokaz_podglad
    \/ WolnoAnuluj /\ usun_ilustracje
    \/ WolnoAnuluj /\ wyczysc_wszystko
    \/ WolnoAnuluj /\ cofnij
    \/ WolnoAnuluj /\ przywroc

SpecAnuluj ==
    /\ Init /\ [][NextAnuluj]_vars
    /\ WF_vars(WatekKrok) /\ WF_vars(WatekKoniec)
    /\ WF_vars(OdbierzProgress) /\ WF_vars(on_images_processed)

\* SpecWczytaj: project files, broken ones among them, loaded into a
\* session with steps, edits, undo and redo
WolnoWczytaj == licznik < MaxOpsWczytaj

PlikiDoWczytania ==
    PlikiProjektow \cup {NoFile, ProjektUszkodzony, ProjektZlyKlucz}

NextWczytaj ==
    \/ WatekKrok
    \/ WatekKoniec
    \/ OdbierzProgress
    \/ on_images_processed
    \/ WolnoWczytaj /\ \E files \in Partie({PlikA, PlikB}) : dodaj_ilustracje(files)
    \/ WolnoWczytaj /\ zapisz_projekt
    \/ WolnoWczytaj /\ \E f \in PlikiDoWczytania : wczytaj_projekt(f)
    \/ WolnoWczytaj /\ pokaz_podglad
    \/ WolnoWczytaj /\ wymien_ilustracje
    \/ WolnoWczytaj /\ usun_ilustracje
    \/ WolnoWczytaj /\ przenies_w_gore
    \/ WolnoWczytaj /\ przenies_w_dol
    \/ WolnoWczytaj /\ zapisz_opis_kroku
    \/ WolnoWczytaj /\ wyczysc_wszystko
    \/ WolnoWczytaj /\ cofnij
    \/ WolnoWczytaj /\ przywroc

SpecWczytaj == Init /\ [][NextWczytaj]_vars

\* SpecDokument: the document generated and the backup written in a
\* session with steps added, loaded and edited, and with the buttons
\* pressed when they have nothing to act on
WolnoDokument == licznik < MaxOpsDokument

NextDokument ==
    \/ WatekKrok
    \/ WatekKoniec
    \/ OdbierzProgress
    \/ on_images_processed
    \/ WolnoDokument /\ \E files \in Partie({PlikA, PlikB}) : dodaj_ilustracje(files)
    \/ WolnoDokument /\ \E f \in {ProjektObcy, ProjektZlyKlucz} : wczytaj_projekt(f)
    \/ WolnoDokument /\ pokaz_podglad
    \/ WolnoDokument /\ usun_ilustracje
    \/ WolnoDokument /\ usun_ilustracje_bez_wiersza
    \/ WolnoDokument /\ przenies_w_gore
    \/ WolnoDokument /\ przenies_w_gore_bez_ruchu
    \/ WolnoDokument /\ przenies_w_dol
    \/ WolnoDokument /\ przenies_w_dol_bez_ruchu
    \/ WolnoDokument /\ zapisz_opis_kroku
    \/ WolnoDokument /\ zapisz_opis_kroku_bez_kroku
    \/ WolnoDokument /\ zapisz_projekt
    \/ WolnoDokument /\ utworz_kopie_zapasowa
    \/ WolnoDokument /\ generuj_i_otworz_dokument
    \/ WolnoDokument /\ ZmienOpcje("uklad")

SpecDokument == Init /\ [][NextDokument]_vars

\* SpecAuto: the autosave timer ticking between the handlers of a session
WolnoAuto == licznik < MaxOpsAuto

NextAuto ==
    \/ WatekKrok
    \/ WatekKoniec
    \/ OdbierzProgress
    \/ on_images_processed
    \/ WolnoAuto /\ \E files \in Partie({PlikB}) : dodaj_ilustracje(files)
    \/ WolnoAuto /\ autozapisz_projekt
    \/ WolnoAuto /\ PrzelaczAutozapis
    \/ WolnoAuto /\ \E f \in PlikiAutozapisu : wczytaj_projekt(f)
    \/ WolnoAuto /\ usun_ilustracje
    \/ WolnoAuto /\ zapisz_opis_kroku
    \/ WolnoAuto /\ wyczysc_wszystko
    \/ WolnoAuto /\ cofnij

SpecAuto == Init /\ [][NextAuto]_vars

\* SpecRetencja: a session started with autosave files of earlier sessions
\* in autosave_dir (the directory is kept between sessions; os.makedirs
\* with exist_ok=True takes it as it is), so that the ticks of the timer
\* fill it past what it keeps
InitRetencja ==
    /\ PoKonstrukcji
    /\ \E n \in {maks_autozapisow - 1, maks_autozapisow} :
         autozapisy = [k \in 1..n |->
                         [nazwa |-> <<"K-2", "_", "wczesniej">> \o StrInt(k),
                          tresc |-> ProjektObcy]]
    /\ probka = BrakProbki
    /\ wynik = BrakWyniku

NextRetencja ==
    \/ WatekKrok
    \/ WatekKoniec
    \/ OdbierzProgress
    \/ on_images_processed
    \/ WolnoAuto /\ \E files \in Partie({PlikA}) : dodaj_ilustracje(files)
    \/ WolnoAuto /\ autozapisz_projekt
    \/ WolnoAuto /\ EdytujPole("kod")

SpecRetencja == InitRetencja /\ [][NextRetencja]_vars

\* SpecResize: resize_image on its own, applied to one image file
InitResize ==
    /\ PoKonstrukcji
    /\ autozapisy = <<>>
    /\ probka \in Probki
    /\ wynik = BrakWyniku

NextResize == resize_image

SpecResize == InitResize /\ [][NextResize]_vars

(* ------------------------------ claims -------------------------------- *)
\* the handlers that change the project after recording a snapshot (the
\* batch add changes it in on_images_processed)
Edycje ==
    {"on_images_processed", "wymien_ilustracje", "usun_ilustracje",
     "przenies_w_gore", "przenies_w_dol", "zapisz_opis_kroku",
     "wyczysc_wszystko"}

\* the handlers that call zapisz_stan before they change anything
Zapisujace ==
    {"dodaj_ilustracje", "wymien_ilustracje", "usun_ilustracje",
     "przenies_w_gore", "przenies_w_dol", "zapisz_opis_kroku",
     "wyczysc_wszystko"}

\* C1: after recorded edits only (nothing typed into a field, no option
\* changed), a single undo right after the most recent edit restores the
\* step list, the step names and descriptions and the metadata fields to
\* the values they had immediately before that edit.
C1_UndoRestoresStateBeforeLastEdit ==
    [][(zmiany = 0 /\ ostatnia \in Edycje /\ ostatnia' = "cofnij")
        => Projekt' = poprzedni]_vars

\* C2: undo followed immediately by redo leaves the step list, the step
\* names and descriptions and the metadata fields as they were before the
\* undo.
C2_UndoThenRedoIsIdentity ==
    [][(ostatnia = "cofnij" /\ ostatnia' = "przywroc")
        => Projekt' = poprzedni]_vars

\* the keys of a snapshot dict
KluczeMigawki ==
    {"ilustracje", "opisy_krokow", "aktualny_wybrany_krok", "kod", "nazwa",
     "data", "autor"}

\* this step ran a handler that called zapisz_stan first
KrokZapisu == ostatnia' \in Zapisujace /\ licznik' = licznik + 1

\* this step ran cofnij or przywroc
KrokNawigacji == ostatnia' \in {"cofnij", "przywroc"} /\ licznik' = licznik + 1

C5_HistoryAtMostTwenty == Len(stan_historia) <= 20

\* C5 witness: the history is full after more than twenty recorded edits,
\* so that a snapshot has been evicted
C5_Witness ==
    /\ Len(stan_historia) = 20
    /\ licznik > 21
    /\ ostatnia = "wyczysc_wszystko"

\* C6: when undos are followed by a new recorded edit, the snapshots that
\* lay beyond the cursor are discarded: the history the edit leaves is made
\* of snapshots up to the cursor and the one snapshot the edit recorded.
C6_RedoTailDiscarded ==
    [][KrokZapisu => Len(stan_historia') - 1 <= aktualny_stan_index + 1]_vars

\* C7: a stored snapshot never changes: across every step other than a load
\* (which resets the history), each snapshot that stays in the history has
\* the step list, the names and descriptions and the metadata it had; a
\* step that records shifts the snapshots down by the one it evicts.
C7_SnapshotsNeverChange ==
    [][IF ostatnia' = "wczytaj_projekt" /\ licznik' = licznik + 1 THEN TRUE
       ELSE IF KrokZapisu
       THEN LET d == Len(stan_historia) + 1 - Len(stan_historia')
            IN  /\ d \in {0, 1}
                /\ \A k \in 1..(Len(stan_historia') - 1) :
                      stan_historia'[k] = stan_historia[k + d]
       ELSE stan_historia' = stan_historia]_vars

\* C7 witness: a step was added, a later edit recorded a snapshot with the
\* step in it and then changed the list of steps in place, and an undo ran
C7_Witness ==
    /\ ostatnia = "cofnij"
    /\ Len(stan_historia) >= 3
    /\ stan_historia[3].ilustracje # <<>>
    /\ poprzedni.ilustracje # stan_historia[3].ilustracje

\* C4: when every step image could be read as the project file was written,
\* loading that file yields the code, name, date and author saved, the same
\* number of steps in the same order with the same bytes in every image,
\* the same name and description for every step, and the layout, image
\* size, font, font size, language and theme saved.
C4_SaveLoadRoundTrip ==
    [][(zapisany.json_ok /\ przy_zapisie.czytelne /\ wczytaj_projekt(zapisany))
        => /\ kod_edit' = przy_zapisie.projekt.kod
           /\ nazwa_edit' = przy_zapisie.projekt.nazwa
           /\ data_edit' = przy_zapisie.projekt.data
           /\ autor_edit' = przy_zapisie.projekt.autor
           /\ Len(ilustracje') = Len(przy_zapisie.projekt.ilustracje)
           /\ \A k \in 1..Len(ilustracje') :
                 /\ ilustracje'[k] \in DOMAIN dysk'
                 /\ dysk'[ilustracje'[k]] = przy_zapisie.tresc[k]
           /\ opisy_krokow' = przy_zapisie.projekt.opisy_krokow
           /\ layout_combo' = przy_zapisie.ustawienia.uklad
           /\ size_combo' = przy_zapisie.ustawienia.rozmiar
           /\ font_combo' = przy_zapisie.ustawienia.czcionka
           /\ font_size_combo' = przy_zapisie.ustawienia.rozmiar_czcionki
           /\ jezyk' = przy_zapisie.ustawienia.jezyk
           /\ dark_theme' = przy_zapisie.ustawienia.dark_theme]_vars

\* C4 witness: a project of two steps added in this session, saved with
\* another layout selected and every image readable, has been loaded back
C4_Witness ==
    /\ ostatnia = "wczytaj_projekt"
    /\ zapisany.json_ok
    /\ przy_zapisie.czytelne
    /\ kod_edit = KodDomyslny
    /\ layout_combo = "dol"
    /\ Len(ilustracje) = 2
    /\ \A k \in 1..2 : ilustracje[k].kat = KatalogGlowny
    /\ przy_zapisie.tresc = <<BajtyA, BajtyJpeg>>

\* C8: deleting the selected step k drops the step count by one; every
\* remaining step keeps its order, its image, and its name and description
\* (or its lack of them); the steps that were above k are keyed one lower,
\* and no record is left beyond the steps.
C8_DeleteReindexes ==
    [][(ostatnia' = "usun_ilustracje" /\ licznik' = licznik + 1
        /\ currentRow < Len(ilustracje))
        => LET k == currentRow
               n == Len(ilustracje)
           IN  /\ Len(ilustracje') = n - 1
               /\ \A i \in 0..(n - 2) :
                     LET j == IF i < k THEN i ELSE i + 1
                     IN  /\ ilustracje'[i + 1] = ilustracje[j + 1]
                         /\ (i \in DOMAIN opisy_krokow')
                               <=> (j \in DOMAIN opisy_krokow)
                         /\ i \in DOMAIN opisy_krokow'
                               => opisy_krokow'[i] = opisy_krokow[j]
               /\ DOMAIN opisy_krokow' \subseteq 0..(n - 2)]_vars

\* C8 witness: the first of three steps, of which the first and the third
\* had a record, has been deleted: the record of the third is keyed 1
C8_Witness ==
    /\ ostatnia = "usun_ilustracje"
    /\ Len(poprzedni.ilustracje) = 3
    /\ DOMAIN poprzedni.opisy_krokow = {0, 2}
    /\ Len(ilustracje) = 2
    /\ DOMAIN opisy_krokow = {1}
    /\ opisy_krokow[1] = poprzedni.opisy_krokow[2]

\* C9: moving the selected step up or down exchanges it with its neighbour
\* as a whole: each of the two steps has, at the exchanged position, the
\* image, the name and the description (or the lack of them) it had, and
\* every other step is unchanged.
C9_MoveSwapsWholeSteps ==
    [][(ostatnia' \in {"przenies_w_gore", "przenies_w_dol"}
        /\ licznik' = licznik + 1 /\ currentRow < Len(ilustracje))
        => LET k == currentRow
               c == IF ostatnia' = "przenies_w_gore" THEN k - 1 ELSE k + 1
               Z(i) == IF i = k THEN c ELSE IF i = c THEN k ELSE i
           IN  /\ Len(ilustracje') = Len(ilustracje)
               /\ \A i \in 0..(Len(ilustracje) - 1) :
                     /\ ilustracje'[i + 1] = ilustracje[Z(i) + 1]
                     /\ (i \in DOMAIN opisy_krokow')
                           <=> (Z(i) \in DOMAIN opisy_krokow)
                     /\ i \in DOMAIN opisy_krokow'
                           => opisy_krokow'[i] = opisy_krokow[Z(i)]]_vars

\* the step image `path` comes from the selected file `plik`: it is the
\* file itself, or the shrunk copy of it the worker wrote to its directory
ZPliku(path, plik, temp_dir) ==
    \/ path = plik
    \/ /\ path.kat = temp_dir
       /\ path.ext = ".jpg"
       /\ Len(path.rdzen) > Len(Md5(plik))
       /\ SubSeq(path.rdzen, Len(path.rdzen) - Len(Md5(plik)) + 1,
                 Len(path.rdzen)) = Md5(plik)

\* C10: when the worker's result is delivered, the steps there were stay
\* where they are and one step per selected file is appended after them,
\* in the order of the file list: step i of the batch has the image made
\* from file i, and a record named after that image.
C10_BatchInInputOrder ==
    [][(sygnaly # <<>> /\ Head(sygnaly).typ = "finished"
        /\ sygnaly' = Tail(sygnaly) /\ ostatnia' = "on_images_processed")
        => LET files == resizer_thread.image_paths
               n == Len(ilustracje)
           IN  /\ Len(ilustracje') = n + Len(files)
               /\ \A i \in 1..n : ilustracje'[i] = ilustracje[i]
               /\ \A i \in 1..Len(files) :
                     /\ ZPliku(ilustracje'[n + i], files[i],
                               resizer_thread.temp_dir)
                     /\ (n + i - 1) \in DOMAIN opisy_krokow'
                     /\ opisy_krokow'[n + i - 1].nazwa
                           = ilustracje'[n + i].rdzen]_vars

\* C10 witness: a batch of two different files, the first of them no image
\* and the second shrunk, has been appended to a project that had a step
C10_Witness ==
    /\ ostatnia = "on_images_processed"
    /\ sygnaly = <<>>
    /\ resizer_thread.image_paths = <<PlikC, PlikB>>
    /\ Len(ilustracje) = 3
    /\ ilustracje[2] = PlikC
    /\ ilustracje[3].ext = ".jpg"

\* C14: resize_image returns a file of at most 800 KB for every image file
\* larger than 800 KB, and returns a file of at most 800 KB as it is, under
\* the same path.
C14_ShrinkBringsFileUnderLimit ==
    wynik # BrakWyniku =>
        IF probka.file_kb * 1024 <= 800 * 1024
        THEN wynik = [path |-> PlikB, rozmiar |-> probka.file_kb * 1024]
        ELSE probka.obraz => wynik.rozmiar <= 800 * 1024

\* the step of the worker that emits finished
KoniecWatku ==
    /\ resizer_thread.stan = "running"
    /\ resizer_thread'.stan = "finished"

\* C11: the list the worker delivers has one path per selected file; the
\* path of a file whose resize fails is the file itself, and every other
\* file of the batch is delivered as it would be alone: itself when it is
\* at most 800 KB, else its shrunk copy in the worker's directory.
C11_FailedResizeFallsBackToOriginal ==
    [][KoniecWatku =>
        LET files == resizer_thread.image_paths
            paths == sygnaly'[Len(sygnaly')].paths
        IN  /\ sygnaly'[Len(sygnaly')].typ = "finished"
            /\ Len(paths) = Len(files)
            /\ \A i \in 1..Len(files) :
                  IF NieObraz(files[i]) \/ files[i] \notin DOMAIN dysk
                  THEN paths[i] = files[i]
                  ELSE IF PonadLimit(files[i])
                  THEN /\ paths[i] # files[i]
                       /\ ZPliku(paths[i], files[i], resizer_thread.temp_dir)
                       /\ paths[i] \in DOMAIN dysk
                  ELSE paths[i] = files[i]]_vars

\* C11 witness: the worker has delivered a batch whose first file is no
\* image and whose second file was shrunk
C11_Witness ==
    /\ resizer_thread.stan = "finished"
    /\ resizer_thread.image_paths = <<PlikC, PlikB>>
    /\ sygnaly # <<>>
    /\ sygnaly[Len(sygnaly)].typ = "finished"
    /\ sygnaly[Len(sygnaly)].paths[1] = PlikC
    /\ sygnaly[Len(sygnaly)].paths[2].ext = ".jpg"

\* C12: the worker emits progress once per file, with the counter 1, 2,
\* ..., n in this order, then finished once, after the n-th progress, and
\* nothing after it; the signals reach the window in the order emitted, and
\* the steps of the batch are appended when finished is handled, not when a
\* progress is.
C12_ProgressThenOneCompletion ==
    [][/\ (sygnaly' # sygnaly
           /\ (sygnaly = <<>> \/ sygnaly' # Tail(sygnaly))) =>
            LET t == resizer_thread
                k == Len(t.processed_paths)
                n == Len(t.image_paths)
                s == sygnaly'[Len(sygnaly')]
            IN  /\ t.stan = "running"
                /\ sygnaly' # <<>>
                /\ sygnaly' = Append(sygnaly, s)
                /\ IF k < n
                   THEN /\ s.typ = "progress" /\ s.current = k + 1
                        /\ s.total = n
                        /\ Len(resizer_thread'.processed_paths) = k + 1
                        /\ resizer_thread'.stan = "running"
                   ELSE /\ s.typ = "finished"
                        /\ resizer_thread'.stan = "finished"
                /\ ilustracje' = ilustracje
       /\ (sygnaly # <<>> /\ sygnaly' = Tail(sygnaly)) =>
            IF Head(sygnaly).typ = "finished"
            THEN /\ resizer_thread.stan = "finished"
                 /\ ilustracje' = ilustracje \o Head(sygnaly).paths
                 /\ Len(Head(sygnaly).paths) = Len(resizer_thread.image_paths)
            ELSE ilustracje' = ilustracje
       /\ (resizer_thread'.image_paths # resizer_thread.image_paths
             \/ resizer_thread'.temp_dir # resizer_thread.temp_dir) =>
            (resizer_thread'.processed_paths = <<>>
             /\ resizer_thread'.stan = "running" /\ sygnaly' = <<>>)]_vars

\* C12 witness: the finished signal of a batch of two files has been handled
\* after its two progress signals, and the two steps are in the project
C12_Witness ==
    /\ ostatnia = "on_images_processed"
    /\ resizer_thread.stan = "finished"
    /\ Len(resizer_thread.image_paths) = 2
    /\ sygnaly = <<>>
    /\ ~progress
    /\ Len(ilustracje) = 2

\* the steps at the end of the project are the files of the worker's batch,
\* in their order
PartiaDodana ==
    LET files == resizer_thread.image_paths
        n == Len(ilustracje) - Len(files)
    IN  /\ n >= 0
        /\ \A i \in 1..Len(files) :
              ZPliku(ilustracje[n + i], files[i], resizer_thread.temp_dir)

\* C13: whatever the user does once a batch add has started its worker,
\* the cancel button of the progress dialog included, the files of the
\* batch all become steps of the project.
C13_StartedBatchAlwaysBecomesSteps ==
    (resizer_thread.stan = "running")
        ~> (ostatnia = "on_images_processed" /\ PartiaDodana)

\* the step of an autosave tick
KrokAutozapisu == ostatnia' = "autozapisz_projekt" /\ licznik' = licznik + 1

\* C15: an autosave tick leaves the project, the options, the list, the
\* history and its cursor, the worker, the queued signals and the progress
\* dialog as they are, whether its writing succeeds or fails; it keeps the
\* process running and the autosave switch as set; and it writes nothing
\* when autosave is disabled or the project has no steps.
C15_AutosaveTickLeavesSessionAlone ==
    [][KrokAutozapisu =>
        /\ Projekt' = Projekt
        /\ Ustawienia' = Ustawienia
        /\ aktualny_wybrany_krok' = aktualny_wybrany_krok
        /\ stan_historia' = stan_historia
        /\ aktualny_stan_index' = aktualny_stan_index
        /\ steps_list' = steps_list /\ currentRow' = currentRow
        /\ resizer_thread' = resizer_thread /\ sygnaly' = sygnaly
        /\ progress' = progress
        /\ dysk' = dysk /\ zapisany' = zapisany
        /\ dziala' /\ autosave_enabled' = autosave_enabled
        /\ (ilustracje = <<>> \/ ~autosave_enabled) => autozapisy' = autozapisy
        /\ Len(autozapisy') <= Len(autozapisy) + 1]_vars

\* C15 witness: a tick whose json.dump failed has run on a project with a
\* step and a history of two snapshots; the broken file is all it left
C15_Witness ==
    /\ ostatnia = "autozapisz_projekt"
    /\ ilustracje # <<>>
    /\ Len(stan_historia) >= 2
    /\ Len(autozapisy) = 1
    /\ ~autozapisy[1].tresc.json_ok
    /\ dziala

\* wczytaj_projekt of the file f runs to its end
WczytanieUdane(f) ==
    /\ f.json_ok
    /\ ~WczytajObrazy(f.obrazy, 0, <<>>, dysk).blad
    /\ OpisyIntKeysOk(f.opisy_krokow)

\* the k-th smallest number of the set I
Ktory(I, k) == CHOOSE i \in I : Cardinality({j \in I : j < i}) = k - 1

\* C16: a load that succeeds makes one step per image entry of the file, in
\* ascending order of the entries' indices; the step made from entry i holds
\* the image stored in entry i and carries the record the file keeps under
\* str(i), or no record when the file keeps none.
C16_LoadMakesOneStepPerImageEntry ==
    [][\A f \in PlikiProjektow :
        (wczytaj_projekt(f) /\ WczytanieUdane(f)) =>
            LET I == {IntStr(key) : key \in DOMAIN f.obrazy}
            IN  /\ Len(ilustracje') = Cardinality(I)
                /\ \A k \in 1..Cardinality(I) :
                      LET i == Ktory(I, k)
                      IN  /\ k <= Len(ilustracje')
                          /\ ilustracje'[k] \in DOMAIN dysk'
                          /\ dysk'[ilustracje'[k]] =
                                B64Decode(f.obrazy[StrInt(i)].dane)
                          /\ IF StrInt(i) \in DOMAIN f.opisy_krokow
                             THEN /\ (k - 1) \in DOMAIN opisy_krokow'
                                  /\ opisy_krokow'[k - 1] =
                                        f.opisy_krokow[StrInt(i)]
                             ELSE (k - 1) \notin DOMAIN opisy_krokow']_vars

\* C17: a load that fails leaves the metadata fields, the steps, their
\* records, the options, the current step, the history and its cursor as
\* they were before it.
C17_FailedLoadChangesNothing ==
    [][\A f \in PlikiDoWczytania :
        (wczytaj_projekt(f) /\ ~WczytanieUdane(f)) =>
            /\ Projekt' = Projekt
            /\ Ustawienia' = Ustawienia
            /\ aktualny_wybrany_krok' = aktualny_wybrany_krok
            /\ stan_historia' = stan_historia
            /\ aktualny_stan_index' = aktualny_stan_index]_vars

\* C18: every key of opisy_krokow is the position of a step.
C18_EveryRecordHasItsStep ==
    \A k \in DOMAIN opisy_krokow : 0 <= k /\ k < Len(ilustracje)

\* C19: aktualny_wybrany_krok is None or the position of a step.
C19_CurrentStepIsValid ==
    \/ aktualny_wybrany_krok = None
    \/ (0 <= aktualny_wybrany_krok /\ aktualny_wybrany_krok < Len(ilustracje))

\* C20: the list widget has one row per step, and row i shows the image of
\* step i with the number i + 1.
C20_ListMirrorsSteps == steps_list = WierszeListy(ilustracje)

\* C21: after construction and after every handler the history is not
\* empty and the cursor is the index of one of its snapshots:
\* 0 <= aktualny_stan_index < len(stan_historia), whatever sequence of
\* edits, undos, redos, evictions at capacity and loads ran.
C21_HistoryNonEmptyCursorValid ==
    /\ Len(stan_historia) >= 1
    /\ 0 <= aktualny_stan_index
    /\ aktualny_stan_index < Len(stan_historia)

\* C21 witness: a project was loaded, twenty edits later the history is at
\* capacity and has evicted a snapshot, and an undo moved the cursor off
\* the newest snapshot
C21_Witness ==
    /\ Len(stan_historia) = maks_historia
    /\ licznik = 22
    /\ ostatnia = "cofnij"
    /\ aktualny_stan_index = maks_historia - 2
    /\ stan_historia[1].kod = <<"K-2">>

\* C22: when zapisz_stan records a snapshot while the history holds 20,
\* exactly the oldest snapshot is dropped, the remaining 19 keep their
\* order, and the new snapshot (the state the handler started from) is the
\* last one with the cursor on it, wherever the cursor was before.
C22_EvictionDropsOldestOnly ==
    [][(KrokZapisu /\ Len(stan_historia) = maks_historia)
       => /\ Len(stan_historia') = maks_historia
          /\ \A k \in 1..(maks_historia - 1) :
                stan_historia'[k] = stan_historia[k + 1]
          /\ stan_historia'[maks_historia] = Stan
          /\ aktualny_stan_index' = maks_historia - 1]_vars

\* C22 witness: a code was typed and recorded by the next edit, one more
\* edit filled the history, an undo moved the cursor back onto the snapshot
\* with the typed code, and the edit after it evicted the oldest snapshot
C22_Witness ==
    /\ Len(stan_historia) = maks_historia
    /\ ostatnia = "wyczysc_wszystko"
    /\ licznik = 22
    /\ aktualny_stan_index = maks_historia - 1
    /\ stan_historia[maks_historia].kod = <<"K-1">>
    /\ stan_historia[maks_historia - 1].kod = KodDomyslny
    /\ stan_historia[maks_historia - 2].kod = <<"K-1">>

\* C23: a successful wczytaj_projekt leaves a history of exactly one
\* snapshot, equal to the state of the loaded project, with the cursor on
\* it; the tests of cofnij and of przywroc both fail right after it, so
\* undo and redo change nothing and no state of the project open before
\* can be reached by undo.
C23_LoadResetsHistory ==
    [][\A f \in PlikiDoWczytania :
          (wczytaj_projekt(f) /\ WczytanieUdane(f))
          => /\ stan_historia' = <<Stan'>>
             /\ aktualny_stan_index' = 0
             /\ ~MoznaCofnac'
             /\ ~MoznaPrzywrocic']_vars

\* C23 witness: a project file was loaded over a project that had steps
\* and so a history of several snapshots; the loaded project differs
C23_Witness ==
    /\ ostatnia = "wczytaj_projekt"
    /\ poprzedni.ilustracje # <<>>
    /\ ilustracje # <<>>
    /\ Projekt # poprzedni
    /\ Len(stan_historia) = 1
    /\ stan_historia[1].kod = <<"K-2">>

\* the project, the current step, the history and the cursor are after
\* this step what they were before it
BezZmianProjektu ==
    /\ Projekt' = Projekt
    /\ aktualny_wybrany_krok' = aktualny_wybrany_krok
    /\ stan_historia' = stan_historia
    /\ aktualny_stan_index' = aktualny_stan_index

\* C24: delete pressed with no row selected, move-up pressed with the first
\* row or no row selected, move-down pressed with the last row of the list
\* or no row selected, and save-description pressed with no current step
\* change neither the project nor the history nor the cursor.
C24_GuardedNoOpsChangeNothing ==
    [][(/\ licznik' = licznik + 1
        /\ \/ ostatnia' = "usun_ilustracje" /\ currentRow < 0
           \/ ostatnia' = "przenies_w_gore" /\ currentRow <= 0
           \/ /\ ostatnia' = "przenies_w_dol"
              /\ (currentRow < 0 \/ currentRow = Len(steps_list) - 1)
           \/ ostatnia' = "zapisz_opis_kroku" /\ aktualny_wybrany_krok = None)
       => BezZmianProjektu]_vars

\* this step ran one of the three export handlers
KrokEksportu ==
    /\ ostatnia' \in {"zapisz_projekt", "utworz_kopie_zapasowa",
                      "generuj_i_otworz_dokument"}
    /\ licznik' = licznik + 1

\* C25: zapisz_projekt, utworz_kopie_zapasowa and
\* generuj_i_otworz_dokument, whether they succeed, fail or are cancelled,
\* leave the step list, the step names and descriptions, the metadata
\* fields, the current step, the history and the cursor unchanged.
C25_ExportsAreReadOnly == [][KrokEksportu => BezZmianProjektu]_vars

\* C25 witness: with steps in the project and a history of more than one
\* snapshot, a backup and then a document have been written
C25_Witness ==
    /\ ilustracje # <<>>
    /\ Len(stan_historia) > 1
    /\ kopia.jest
    /\ dokument.jest
    /\ ostatnia = "generuj_i_otworz_dokument"

\* the image paths a step refers to: those of self.ilustracje and those of
\* the snapshots of the history
SciezkiKrokow ==
    {ilustracje[k] : k \in 1..Len(ilustracje)}
    \cup UNION {{stan_historia[n].ilustracje[k] :
                   k \in 1..Len(stan_historia[n].ilustracje)} :
                n \in 1..Len(stan_historia)}

\* C26: while the application runs, every resized image file the worker
\* wrote into its temporary directory and a step refers to (from
\* ilustracje or from a history snapshot) is on disk: neither the worker
\* finishing nor a later batch add, which replaces the worker object,
\* deletes it.
C26_ReferencedResizedFilesStay ==
    dziala =>
        \A p \in SciezkiKrokow :
            (p.kat # <<"user">> /\ p.kat # KatalogGlowny) => p \in DOMAIN dysk

\* this step is a tick of the autosave timer that wrote its file: the
\* directory changed and the newest file in it is a whole project file
AutozapisUdany ==
    /\ KrokAutozapisu
    /\ autozapisy' # autozapisy
    /\ autozapisy' # <<>>
    /\ autozapisy'[Len(autozapisy')].tresc.json_ok
    /\ autozapisy'[Len(autozapisy')].nazwa = NazwaAutozapisu(kod_edit, zegar)

\* the n newest files of the directory `pliki` (all of them when it holds
\* fewer)
Najnowsze(pliki, n) ==
    SubSeq(pliki, IF Len(pliki) > n THEN Len(pliki) - n + 1 ELSE 1, Len(pliki))

\* the files of the directory `pliki` older than its n newest
Starsze(pliki, n) ==
    SubSeq(pliki, 1, IF Len(pliki) > n THEN Len(pliki) - n ELSE 0)

C28_DocumentFollowsStepList ==
    [][(/\ ostatnia' = "generuj_i_otworz_dokument"
        /\ licznik' = licznik + 1
        /\ dokument' # dokument)
       => LET n == Len(ilustracje)
              Rekord(k) == opisy_krokow[k - 1]
              MaRekord(k) == (k - 1) \in DOMAIN opisy_krokow
              Wpis(k) ==
                  <<"Krok ">> \o StrInt(k) \o <<": ">>
                  \o (IF MaRekord(k) THEN Rekord(k).nazwa
                      ELSE <<"Krok ">> \o StrInt(k))
          IN  /\ dokument'.jest
              /\ Len(dokument'.spis) = n
              /\ Len(dokument'.procedura) = n
              /\ \A k \in 1..n :
                   /\ dokument'.spis[k] = Wpis(k)
                   /\ dokument'.procedura[k].naglowek = Wpis(k)
                   /\ dokument'.procedura[k].instrukcja =
                        (IF MaRekord(k) THEN Rekord(k).opis
                         ELSE DomyslnySzablon(jezyk))
                   /\ IF ilustracje[k] \in DOMAIN dysk
                      THEN /\ dokument'.procedura[k].obraz = dysk[ilustracje[k]]
                           /\ dokument'.procedura[k].brak_obrazu = <<>>
                      ELSE /\ dokument'.procedura[k].obraz = <<>>
                           /\ dokument'.procedura[k].brak_obrazu # <<>>]_vars

\* C28 witness: a document of two steps was generated, the image file of
\* the first step missing, its place taken by the placeholder text
C28_Witness ==
    /\ ostatnia = "generuj_i_otworz_dokument"
    /\ dokument.jest
    /\ Len(dokument.procedura) = 2
    /\ Len(dokument.spis) = 2
    /\ dokument.procedura[1].brak_obrazu # <<>>
    /\ dokument.procedura[2].obraz # <<>>

====
